---- MODULE Spec2Model ----
(***************************************************************************)
(* In-memory virtual filesystem of first_practic/shell_emulator.py: the    *)
(* node heap (VNode/VDir/VFile objects), the mutators add_dir, add_file    *)
(* and _copy_recursive, path resolution, and the shell commands cd, touch  *)
(* and cp built on them.                                                   *)
(*                                                                         *)
(* Objects are heap cells: the heap `nodes` is a sequence, a node's        *)
(* identity is its index, 0 stands for None.  A directory's `children`     *)
(* dict is a sequence of (name, node) entries in insertion order, as a     *)
(* Python dict keeps it.  Strings are sequences of one-character strings.  *)
(***************************************************************************)
EXTENDS Integers, Sequences, FiniteSets, TLC

VARIABLES nodes, vfs_root, cwd, last

\* ShellEmulator: the command history, the history cursor, and what the
\* start-up script wrote to the output area (one entry per executed line);
\* `script` is the file that script_path names, `inp` the text of the
\* input field
VARIABLES history, hist_idx, inp, script, script_log

\* second_practic/dependency_cli.py: the arguments and the locals of
\* build_dependency_graph
VARIABLES graph, root_name, max_depth, filter_substring,
          queue, visited, entries, edges, skipped

uiVars == <<history, hist_idx, inp, script, script_log>>

depVars == <<graph, root_name, max_depth, filter_substring,
             queue, visited, entries, edges, skipped>>

vars == <<nodes, vfs_root, cwd, last, uiVars, depVars>>

\* hist_idx = None
NoIdx == -1

\* filter_substring = None
NoFilter == <<>>

\* script_path = None
NoScript == [exists |-> FALSE, readable |-> FALSE, lines |-> <<>>]

\* the shell before any line was entered and any script was run
UiIdle ==
  /\ history = <<>>
  /\ hist_idx = NoIdx
  /\ inp = <<>>
  /\ script = NoScript
  /\ script_log = <<>>

\* build_dependency_graph not called
DepIdle ==
  /\ graph = <<>>
  /\ root_name = <<>>
  /\ max_depth = 0
  /\ filter_substring = NoFilter
  /\ queue = <<>>
  /\ visited = {}
  /\ entries = <<>>
  /\ edges = <<>>
  /\ skipped = <<>>

\* ---------------------------------------------------------------- bounds
\* Operations that may allocate are taken only while the heap has fewer
\* than MaxNodes cells.
MaxNodes == 4

\* Shell commands are taken only while the heap has fewer than MaxShellNodes
\* cells.
MaxShellNodes == 3

\* Path strings handed to the resolver have at most MaxPathLen characters.
MaxPathLen == 3

\* Lines are processed only while the tree loaded at start-up has grown to
\* fewer than MaxTreeNodes nodes (the built-in tree has 7).
MaxTreeNodes == 8

\* A start-up script has at most MaxScriptLen lines.
MaxScriptLen == 3

\* Lines are entered only while the history holds fewer than MaxHistory lines.
MaxHistory == 3

\* A test graph has at most MaxEdges dependency edges.
MaxEdges == 3

\* --max-depth is taken from 1..MaxDepthArg.
MaxDepthArg == 2

\* Depth of nested _copy_recursive frames the interpreter allows before it
\* raises RecursionError (sys.getrecursionlimit(), scaled down).
RecursionLimit == 3

\* ---------------------------------------------------------------- strings
\* Code point order of the characters in use.
Code(c) ==
  CASE c = "-" -> 45
    [] c = "." -> 46
    [] c = "/" -> 47
    [] c = "A" -> 65
    [] c = "a" -> 97
    [] c = "b" -> 98
    [] c = "c" -> 99
    [] c = "d" -> 100
    [] c = "e" -> 101
    [] c = "h" -> 104
    [] c = "m" -> 109
    [] c = "n" -> 110
    [] c = "o" -> 111
    [] c = "r" -> 114
    [] c = "s" -> 115
    [] c = "t" -> 116
    [] c = "u" -> 117
    [] c = "x" -> 120

\* str.lower on one character
LowerChar(c) == IF c = "A" THEN "a" ELSE c

\* str.lower
Lower(s) == [i \in 1..Len(s) |-> LowerChar(s[i])]

\* Python's str '<' : lexicographic on code points
RECURSIVE StrLess(_, _)
StrLess(s, t) ==
  IF t = <<>> THEN FALSE
  ELSE IF s = <<>> THEN TRUE
  ELSE IF Code(Head(s)) < Code(Head(t)) THEN TRUE
  ELSE IF Code(Head(s)) > Code(Head(t)) THEN FALSE
  ELSE StrLess(Tail(s), Tail(t))

\* Names and contents handed to the mutators.
Names == {<<"a">>, <<"b">>}
Contents == {"x", "y"}

\* ---------------------------------------------------------------- heap
None == 0

\* VDir(name, parent)
VDir(name, parent) ==
  [name |-> name, parent |-> parent, kind |-> "dir", content |-> "", children |-> <<>>]

\* VFile(name, content, parent)
VFile(name, content, parent) ==
  [name |-> name, parent |-> parent, kind |-> "file", content |-> content, children |-> <<>>]

IsDir(h, n) == n # None /\ h[n].kind = "dir"
IsFile(h, n) == n # None /\ h[n].kind = "file"

\* position of key `name` in a children dict, 0 when absent
KeyIndex(kids, name) ==
  IF \E i \in 1..Len(kids) : kids[i].name = name
  THEN CHOOSE i \in 1..Len(kids) : kids[i].name = name
  ELSE 0

\* VDir.get
Get(h, d, name) ==
  LET i == KeyIndex(h[d].children, name)
  IN IF i = 0 THEN None ELSE h[d].children[i].node

\* self.children[name] = node : an existing key keeps its position
DictSet(kids, name, node) ==
  LET i == KeyIndex(kids, name)
  IN IF i = 0 THEN Append(kids, [name |-> name, node |-> node])
     ELSE [kids EXCEPT ![i] = [name |-> name, node |-> node]]

\* add_dir without the early return of an existing directory
add_dir_always_new(h, d, name) ==
  LET existing == Get(h, d, name)
      new == Len(h) + 1
  IN IF existing # None /\ ~IsDir(h, existing)
     THEN [h |-> h, ret |-> None, err |-> "TypeConflict"]
     ELSE [h |-> Append([h EXCEPT ![d].children = DictSet(@, name, new)],
                        VDir(name, d)),
           ret |-> new, err |-> "ok"]

\* VDir.add_dir
add_dir(h, d, name) ==
  LET existing == Get(h, d, name)
  IN IF existing # None /\ ~IsDir(h, existing)
     THEN [h |-> h, ret |-> None, err |-> "TypeConflict"]
     ELSE IF IsDir(h, existing)
     THEN [h |-> h, ret |-> existing, err |-> "ok"]
     ELSE LET new == Len(h) + 1
          IN [h |-> Append([h EXCEPT ![d].children = DictSet(@, name, new)],
                           VDir(name, d)),
              ret |-> new, err |-> "ok"]

\* add_file that creates the file without its parent reference
add_file_no_parent(h, d, name, content) ==
  LET existing == Get(h, d, name)
      new == Len(h) + 1
  IN IF existing # None /\ ~IsFile(h, existing)
     THEN [h |-> h, ret |-> None, err |-> "TypeConflict"]
     ELSE [h |-> Append([h EXCEPT ![d].children = DictSet(@, name, new)],
                        VFile(name, content, None)),
           ret |-> new, err |-> "ok"]

\* add_file without the type check: replaces whatever holds the name
add_file_no_check(h, d, name, content) ==
  LET new == Len(h) + 1
  IN [h |-> Append([h EXCEPT ![d].children = DictSet(@, name, new)],
                   VFile(name, content, d)),
      ret |-> new, err |-> "ok"]

\* add_file that returns an existing file as it is, as add_dir does
add_file_keep_existing(h, d, name, content) ==
  LET existing == Get(h, d, name)
      new == Len(h) + 1
  IN IF existing # None /\ ~IsFile(h, existing)
     THEN [h |-> h, ret |-> None, err |-> "TypeConflict"]
     ELSE IF IsFile(h, existing)
     THEN [h |-> h, ret |-> existing, err |-> "ok"]
     ELSE [h |-> Append([h EXCEPT ![d].children = DictSet(@, name, new)],
                        VFile(name, content, d)),
           ret |-> new, err |-> "ok"]

\* VDir.add_file
add_file(h, d, name, content) ==
  LET existing == Get(h, d, name)
  IN IF existing # None /\ ~IsFile(h, existing)
     THEN [h |-> h, ret |-> None, err |-> "TypeConflict"]
     ELSE LET new == Len(h) + 1
          IN [h |-> Append([h EXCEPT ![d].children = DictSet(@, name, new)],
                           VFile(name, content, d)),
              ret |-> new, err |-> "ok"]

\* sorted(items, key=lambda kv: kv[0].lower()) : stable
RECURSIVE InsertSorted(_, _)
InsertSorted(sorted, e) ==
  IF sorted = <<>> THEN <<e>>
  ELSE IF StrLess(Lower(e.name), Lower(Head(sorted).name))
       THEN <<e>> \o sorted
       ELSE <<Head(sorted)>> \o InsertSorted(Tail(sorted), e)

RECURSIVE SortedItems(_)
SortedItems(kids) ==
  IF kids = <<>> THEN <<>>
  ELSE InsertSorted(SortedItems(SubSeq(kids, 1, Len(kids) - 1)), kids[Len(kids)])

\* _copy_recursive; `depth` counts the nested _copy_recursive frames.
RECURSIVE copy_recursive(_, _, _, _, _)
RECURSIVE copy_children(_, _, _, _, _)
\* _copy_recursive that links the source directory itself under the new
\* name instead of building a new directory (a shallow copy)
copy_recursive_shallow(h, src, dst_parent, new_name, depth) ==
  LET existing == Get(h, dst_parent, new_name)
  IN IF IsFile(h, src)
     THEN LET r == add_file(h, dst_parent, new_name, h[src].content)
          IN [h |-> r.h, err |-> r.err]
     ELSE IF existing # None
     THEN [h |-> h, err |-> "AlreadyExists"]
     ELSE [h |-> [h EXCEPT ![dst_parent].children = DictSet(@, new_name, src)],
           err |-> "ok"]

\* _copy_recursive without the check of an existing target: it merges into
\* an existing directory
copy_recursive_merge(h, src, dst_parent, new_name, depth) ==
  IF depth > RecursionLimit
  THEN [h |-> h, err |-> "RecursionError"]
  ELSE IF IsFile(h, src)
       THEN LET r == add_file(h, dst_parent, new_name, h[src].content)
            IN [h |-> r.h, err |-> r.err]
       ELSE LET r == add_dir(h, dst_parent, new_name)
            IN IF r.err # "ok" THEN [h |-> r.h, err |-> r.err]
               ELSE copy_children(r.h, SortedItems(r.h[src].children), 1, r.ret, depth)

copy_recursive(h, src, dst_parent, new_name, depth) ==
  IF depth > RecursionLimit
  THEN [h |-> h, err |-> "RecursionError"]
  ELSE LET existing == Get(h, dst_parent, new_name)
       IN IF IsFile(h, src)
          THEN LET r == add_file(h, dst_parent, new_name, h[src].content)
               IN [h |-> r.h, err |-> r.err]
          ELSE IF existing # None
          THEN [h |-> h, err |-> "AlreadyExists"]
          ELSE LET r == add_dir(h, dst_parent, new_name)
               IN copy_children(r.h, SortedItems(r.h[src].children), 1, r.ret, depth)

\* the for loop of _copy_recursive over the sorted snapshot of src.children
copy_children(h, items, i, new_dir, depth) ==
  IF i > Len(items) THEN [h |-> h, err |-> "ok"]
  ELSE LET child == items[i].node
           r == IF IsFile(h, child)
                THEN LET f == add_file(h, new_dir, items[i].name, h[child].content)
                     IN [h |-> f.h, err |-> f.err]
                ELSE copy_recursive(h, child, new_dir, items[i].name, depth + 1)
       IN IF r.err # "ok" THEN r
          ELSE copy_children(r.h, items, i + 1, new_dir, depth)

\* ---------------------------------------------------------------- paths
\* path_str.split("/")
RECURSIVE SplitSlash(_, _)
SplitSlash(s, cur) ==
  IF s = <<>> THEN <<cur>>
  ELSE IF Head(s) = "/" THEN <<cur>> \o SplitSlash(Tail(s), <<>>)
  ELSE SplitSlash(Tail(s), Append(cur, Head(s)))

\* [p for p in path_str.split("/") if p]
Parts(path_str) == SelectSeq(SplitSlash(path_str, <<>>), LAMBDA p : p # <<>>)

\* path_str.rstrip("/")
RECURSIVE RStripSlash(_)
RStripSlash(s) ==
  IF s # <<>> /\ s[Len(s)] = "/" THEN RStripSlash(SubSeq(s, 1, Len(s) - 1)) ELSE s

StartsWithSlash(s) == s # <<>> /\ Head(s) = "/"

\* "/".join(parts)
RECURSIVE JoinSlash(_)
JoinSlash(parts) ==
  IF parts = <<>> THEN <<>>
  ELSE IF Len(parts) = 1 THEN parts[1]
  ELSE parts[1] \o <<"/">> \o JoinSlash(Tail(parts))

\* the while loop of VNode.abspath, already reversed: names from below the
\* root down to cur
RECURSIVE abspath_parts(_, _)
abspath_parts(h, cur) ==
  IF cur = None \/ h[cur].parent = None THEN <<>>
  ELSE Append(abspath_parts(h, h[cur].parent), h[cur].name)

\* VNode.abspath
abspath(h, n) ==
  IF h[n].parent = None THEN <<"/">>
  ELSE <<"/">> \o JoinSlash(abspath_parts(h, n))

\* the for loop of _resolve_in_vfs
RECURSIVE resolve_parts(_, _, _, _)
\* the loop of _resolve_in_vfs where ".." at the root is an error
resolve_parts_strict_up(h, cur, a_root, parts) ==
  IF parts = <<>> THEN [node |-> cur, err |-> "ok"]
  ELSE LET part == Head(parts)
       IN IF part = <<".">> THEN resolve_parts(h, cur, a_root, Tail(parts))
          ELSE IF part = <<".", ".">>
          THEN IF h[cur].parent = None THEN [node |-> None, err |-> "NotFound"]
               ELSE resolve_parts(h, h[cur].parent, a_root, Tail(parts))
          ELSE IF ~IsDir(h, cur) THEN [node |-> None, err |-> "NotADirectory"]
          ELSE IF Get(h, cur, part) = None THEN [node |-> None, err |-> "NotFound"]
          ELSE resolve_parts(h, Get(h, cur, part), a_root, Tail(parts))

\* the loop of _resolve_in_vfs without the isinstance(cur, VDir) test
resolve_parts_no_dir_test(h, cur, a_root, parts) ==
  IF parts = <<>> THEN [node |-> cur, err |-> "ok"]
  ELSE LET part == Head(parts)
       IN IF part = <<".">> THEN resolve_parts(h, cur, a_root, Tail(parts))
          ELSE IF part = <<".", ".">>
          THEN resolve_parts(h, IF h[cur].parent = None THEN a_root ELSE h[cur].parent,
                             a_root, Tail(parts))
          ELSE IF Get(h, cur, part) = None THEN [node |-> None, err |-> "NotFound"]
          ELSE resolve_parts(h, Get(h, cur, part), a_root, Tail(parts))

resolve_parts(h, cur, a_root, parts) ==
  IF parts = <<>> THEN [node |-> cur, err |-> "ok"]
  ELSE LET part == Head(parts)
       IN IF part = <<".">> THEN resolve_parts(h, cur, a_root, Tail(parts))
          ELSE IF part = <<".", ".">>
          THEN resolve_parts(h, IF h[cur].parent = None THEN a_root ELSE h[cur].parent,
                             a_root, Tail(parts))
          ELSE IF ~IsDir(h, cur) THEN [node |-> None, err |-> "NotADirectory"]
          ELSE IF Get(h, cur, part) = None THEN [node |-> None, err |-> "NotFound"]
          ELSE resolve_parts(h, Get(h, cur, part), a_root, Tail(parts))

\* path_str is None
NoPath == <<"<None>">>

\* _resolve_in_vfs that starts every path at start
resolve_in_vfs_relative(h, start, a_root, path_str) ==
  IF path_str = NoPath \/ path_str = <<".">> THEN [node |-> start, err |-> "ok"]
  ELSE resolve_parts(h, start, a_root, Parts(path_str))

\* _resolve_in_vfs
resolve_in_vfs(h, start, a_root, path_str) ==
  IF path_str = NoPath \/ path_str = <<".">> THEN [node |-> start, err |-> "ok"]
  ELSE resolve_parts(h, IF StartsWithSlash(path_str) THEN a_root ELSE start,
                     a_root, Parts(path_str))

\* the for loop of _resolve_parent_for_creation over dir_parts
RECURSIVE resolve_dir_parts(_, _, _, _)
\* the loop of _resolve_parent_for_creation that passes over a missing
\* component instead of raising
resolve_dir_parts_skip_missing(h, cur, a_root, parts) ==
  IF parts = <<>> THEN [node |-> cur, err |-> "ok"]
  ELSE LET part == Head(parts)
       IN IF part = <<".">> THEN resolve_dir_parts(h, cur, a_root, Tail(parts))
          ELSE IF part = <<".", ".">>
          THEN resolve_dir_parts(h, IF h[cur].parent = None THEN a_root ELSE h[cur].parent,
                                 a_root, Tail(parts))
          ELSE IF ~IsDir(h, cur) THEN [node |-> None, err |-> "NotADirectory"]
          ELSE IF Get(h, cur, part) = None
          THEN resolve_dir_parts(h, cur, a_root, Tail(parts))
          ELSE IF ~IsDir(h, Get(h, cur, part)) THEN [node |-> None, err |-> "NotADirectory"]
          ELSE resolve_dir_parts(h, Get(h, cur, part), a_root, Tail(parts))

resolve_dir_parts(h, cur, a_root, parts) ==
  IF parts = <<>> THEN [node |-> cur, err |-> "ok"]
  ELSE LET part == Head(parts)
       IN IF part = <<".">> THEN resolve_dir_parts(h, cur, a_root, Tail(parts))
          ELSE IF part = <<".", ".">>
          THEN resolve_dir_parts(h, IF h[cur].parent = None THEN a_root ELSE h[cur].parent,
                                 a_root, Tail(parts))
          ELSE IF ~IsDir(h, cur) THEN [node |-> None, err |-> "NotADirectory"]
          ELSE IF Get(h, cur, part) = None THEN [node |-> None, err |-> "NotFound"]
          ELSE IF ~IsDir(h, Get(h, cur, part)) THEN [node |-> None, err |-> "NotADirectory"]
          ELSE resolve_dir_parts(h, Get(h, cur, part), a_root, Tail(parts))

\* _resolve_parent_for_creation without the test of the name "." / ".."
resolve_parent_for_creation_any_name(h, start, a_root, path_str0) ==
  LET invalid == [parent |-> None, name |-> <<>>, err |-> "InvalidPath"]
      path_str == IF path_str0 # <<"/">> THEN RStripSlash(path_str0) ELSE path_str0
      parts == Parts(path_str)
  IN IF path_str0 = <<>> THEN invalid
     ELSE IF path_str = <<>> \/ path_str = <<"/">> THEN invalid
     ELSE IF parts = <<>> THEN invalid
     ELSE LET r == resolve_dir_parts(h, IF StartsWithSlash(path_str) THEN a_root ELSE start,
                                     a_root, SubSeq(parts, 1, Len(parts) - 1))
          IN IF r.err # "ok" THEN [parent |-> None, name |-> <<>>, err |-> r.err]
             ELSE IF ~IsDir(h, r.node) THEN [parent |-> None, name |-> <<>>, err |-> "NotADirectory"]
             ELSE [parent |-> r.node, name |-> parts[Len(parts)], err |-> "ok"]

\* _resolve_parent_for_creation
resolve_parent_for_creation(h, start, a_root, path_str0) ==
  LET invalid == [parent |-> None, name |-> <<>>, err |-> "InvalidPath"]
      path_str == IF path_str0 # <<"/">> THEN RStripSlash(path_str0) ELSE path_str0
      parts == Parts(path_str)
  IN IF path_str0 = <<>> THEN invalid
     ELSE IF path_str = <<>> \/ path_str = <<"/">> THEN invalid
     ELSE IF parts = <<>> THEN invalid
     ELSE IF parts[Len(parts)] \in {<<".">>, <<".", ".">>} THEN invalid
     ELSE LET r == resolve_dir_parts(h, IF StartsWithSlash(path_str) THEN a_root ELSE start,
                                     a_root, SubSeq(parts, 1, Len(parts) - 1))
          IN IF r.err # "ok" THEN [parent |-> None, name |-> <<>>, err |-> r.err]
             ELSE IF ~IsDir(h, r.node) THEN [parent |-> None, name |-> <<>>, err |-> "NotADirectory"]
             ELSE [parent |-> r.node, name |-> parts[Len(parts)], err |-> "ok"]

\* ---------------------------------------------------------------- shell
\* dispatch, cmd == "cd", without the test that the target is a directory
dispatch_cd_any_target(h, cur_dir, a_root, args) ==
  LET path == IF args # <<>> THEN args[1] ELSE <<"/">>
      r == resolve_in_vfs(h, cur_dir, a_root, path)
  IN IF r.err # "ok" THEN [cwd |-> cur_dir, err |-> r.err]
     ELSE [cwd |-> r.node, err |-> "ok"]

\* dispatch, cmd == "cd"
dispatch_cd(h, cur_dir, a_root, args) ==
  LET path == IF args # <<>> THEN args[1] ELSE <<"/">>
      r == resolve_in_vfs(h, cur_dir, a_root, path)
  IN IF r.err # "ok" THEN [cwd |-> cur_dir, err |-> r.err]
     ELSE IF ~IsDir(h, r.node) THEN [cwd |-> cur_dir, err |-> "NotADirectory"]
     ELSE [cwd |-> r.node, err |-> "ok"]

\* the body of the touch loop that writes an empty file over an existing one
touch_one_recreate(h, cur_dir, a_root, p) ==
  LET r == resolve_in_vfs(h, cur_dir, a_root, p)
  IN IF r.err # "ok"
     THEN LET c == resolve_parent_for_creation(h, cur_dir, a_root, p)
          IN IF c.err # "ok" THEN [h |-> h, err |-> c.err]
             ELSE LET f == add_file(h, c.parent, c.name, "")
                  IN [h |-> f.h, err |-> f.err]
     ELSE IF IsDir(h, r.node) THEN [h |-> h, err |-> "IsADirectory"]
     ELSE LET f == add_file(h, h[r.node].parent, h[r.node].name, "")
          IN [h |-> f.h, err |-> f.err]

\* dispatch, cmd == "touch": the body of the loop for one argument p
touch_one(h, cur_dir, a_root, p) ==
  LET r == resolve_in_vfs(h, cur_dir, a_root, p)
  IN IF r.err # "ok"
     THEN LET c == resolve_parent_for_creation(h, cur_dir, a_root, p)
          IN IF c.err # "ok" THEN [h |-> h, err |-> c.err]
             ELSE LET f == add_file(h, c.parent, c.name, "")
                  IN [h |-> f.h, err |-> f.err]
     ELSE IF IsDir(h, r.node) THEN [h |-> h, err |-> "IsADirectory"]
     ELSE [h |-> h, err |-> "ok"]

\* dispatch, cmd == "touch": the loop; err is "ok" while ok_all holds,
\* afterwards the kind of the last message written
RECURSIVE touch_loop(_, _, _, _, _)
touch_loop(h, cur_dir, a_root, args, err) ==
  IF args = <<>> THEN [h |-> h, err |-> err]
  ELSE LET r == touch_one(h, cur_dir, a_root, Head(args))
       IN touch_loop(r.h, cur_dir, a_root, Tail(args),
                     IF r.err # "ok" THEN r.err ELSE err)

dispatch_touch(h, cur_dir, a_root, args) ==
  IF args = <<>> THEN [h |-> h, err |-> "Usage"]
  ELSE touch_loop(h, cur_dir, a_root, args, "ok")

DashR == <<"-", "r">>

\* dispatch, cmd == "cp"
dispatch_cp(h, cur_dir, a_root, args) ==
  LET recursive == \E i \in 1..Len(args) : args[i] = DashR
      rest == SelectSeq(args, LAMBDA a : a # DashR)
  IN IF Len(rest) # 2 THEN [h |-> h, err |-> "Usage"]
     ELSE
     LET s == resolve_in_vfs(h, cur_dir, a_root, rest[1])
         d == resolve_in_vfs(h, cur_dir, a_root, rest[2])
         src_node == s.node
         dst_node == d.node
     IN IF s.err # "ok" THEN [h |-> h, err |-> s.err]
        ELSE IF IsDir(h, src_node) /\ ~recursive THEN [h |-> h, err |-> "NeedRecursive"]
        ELSE IF d.err = "ok"
        THEN IF IsFile(h, dst_node)
             THEN IF IsDir(h, src_node) THEN [h |-> h, err |-> "DirOntoFile"]
                  ELSE [h |-> [h EXCEPT ![dst_node].content = h[src_node].content],
                        err |-> "ok"]
             ELSE LET new_name == h[src_node].name
                  IN IF IsDir(h, src_node) /\ Get(h, dst_node, new_name) # None
                     THEN [h |-> h, err |-> "AlreadyExists"]
                     ELSE copy_recursive(h, src_node, dst_node, new_name, 1)
        ELSE LET c == resolve_parent_for_creation(h, cur_dir, a_root, rest[2])
             IN IF c.err # "ok" THEN [h |-> h, err |-> c.err]
                ELSE IF IsDir(h, src_node) /\ Get(h, c.parent, c.name) # None
                THEN [h |-> h, err |-> "AlreadyExists"]
                ELSE copy_recursive(h, src_node, c.parent, c.name, 1)

\* command words and options of dispatch
CmdExit == <<"e", "x", "i", "t">>

CmdHelp == <<"h", "e", "l", "p">>

CmdPwd == <<"p", "w", "d">>

CmdEcho == <<"e", "c", "h", "o">>

CmdUname == <<"u", "n", "a", "m", "e">>

CmdLs == <<"l", "s">>

CmdFind == <<"f", "i", "n", "d">>

CmdCd == <<"c", "d">>

CmdTouch == <<"t", "o", "u", "c", "h">>

CmdCp == <<"c", "p">>

CmdName == <<"-", "n", "a", "m", "e">>

CmdType == <<"-", "t", "y", "p", "e">>

CmdMaxdepth == <<"-", "m", "a", "x", "d", "e", "p", "t", "h">>

\* ---------------------------------------------------------------- lines
\* shlex.split(line, posix=True) for lines without quotes, backslashes or
\* tabs: the maximal runs of characters other than " "
RECURSIVE shlex_split(_, _)
shlex_split(line, word) ==
  IF line = <<>> THEN (IF word = <<>> THEN <<>> ELSE <<word>>)
  ELSE IF Head(line) = " "
       THEN (IF word = <<>> THEN <<>> ELSE <<word>>) \o shlex_split(Tail(line), <<>>)
       ELSE shlex_split(Tail(line), Append(word, Head(line)))

\* str.strip for lines whose only whitespace is " "
RECURSIVE LStrip(_)
LStrip(line) ==
  IF line # <<>> /\ Head(line) = " " THEN LStrip(Tail(line)) ELSE line

RECURSIVE RStrip(_)
RStrip(line) ==
  IF line # <<>> /\ line[Len(line)] = " " THEN RStrip(SubSeq(line, 1, Len(line) - 1))
  ELSE line

Strip(line) == RStrip(LStrip(line))

StartsWithDash(a) == a # <<>> /\ a[1] = "-"

\* int(text) succeeds with a value >= 0
IsNonNegativeInt(text) ==
  text # <<>> /\ \A i \in 1..Len(text) : text[i] \in {"0", "1", "2"}

\* dispatch, cmd == "uname": TRUE when it returns True
uname_ok(args) ==
  LET flags == SelectSeq(args, StartsWithDash)
  IN \/ flags = <<>>
     \/ \E i \in 1..Len(flags) : flags[i] = <<"-", "a">>
     \/ \A i \in 1..Len(flags) :
          flags[i] \in {<<"-", "s">>, <<"-", "n">>, <<"-", "r">>, <<"-", "m">>,
                        <<"-", "p">>, <<"-", "o">>}

\* dispatch, cmd == "find": the loop over the arguments from position i;
\* it hands back the path to start from, or the error it reports
RECURSIVE find_args(_, _, _)
find_args(args, i, path) ==
  IF i > Len(args) THEN [path |-> path, err |-> "ok"]
  ELSE LET a == args[i]
       IN IF ~StartsWithDash(a) /\ path = <<".">> THEN find_args(args, i + 1, a)
          ELSE IF a = CmdName /\ i + 1 <= Len(args) THEN find_args(args, i + 2, path)
          ELSE IF a = CmdType /\ i + 1 <= Len(args)
          THEN IF args[i + 1] \notin {<<"f">>, <<"d">>}
               THEN [path |-> path, err |-> "Usage"]
               ELSE find_args(args, i + 2, path)
          ELSE IF a = CmdMaxdepth /\ i + 1 <= Len(args)
          THEN IF ~IsNonNegativeInt(args[i + 1])
               THEN [path |-> path, err |-> "Usage"]
               ELSE find_args(args, i + 2, path)
          ELSE [path |-> path, err |-> "Usage"]

\* dispatch: the tree, the current directory and the error reported ("ok"
\* when dispatch returns True)
dispatch(h, cur_dir, a_root, cmd, args) ==
  IF cmd \in {CmdExit, CmdHelp, CmdPwd, CmdEcho}
  THEN [h |-> h, cwd |-> cur_dir, err |-> "ok"]
  ELSE IF cmd = CmdUname
  THEN [h |-> h, cwd |-> cur_dir, err |-> IF uname_ok(args) THEN "ok" ELSE "Usage"]
  ELSE IF cmd = CmdLs
  THEN [h |-> h, cwd |-> cur_dir,
        err |-> resolve_in_vfs(h, cur_dir, a_root,
                               IF args # <<>> THEN args[1] ELSE <<".">>).err]
  ELSE IF cmd = CmdFind
  THEN [h |-> h, cwd |-> cur_dir,
        err |-> IF find_args(args, 1, <<".">>).err # "ok"
                THEN find_args(args, 1, <<".">>).err
                ELSE resolve_in_vfs(h, cur_dir, a_root,
                                    find_args(args, 1, <<".">>).path).err]
  ELSE IF cmd = CmdCd
  THEN [h |-> h,
        cwd |-> dispatch_cd(h, cur_dir, a_root, args).cwd,
        err |-> dispatch_cd(h, cur_dir, a_root, args).err]
  ELSE IF cmd = CmdTouch
  THEN [h |-> dispatch_touch(h, cur_dir, a_root, args).h,
        cwd |-> cur_dir,
        err |-> dispatch_touch(h, cur_dir, a_root, args).err]
  ELSE IF cmd = CmdCp
  THEN [h |-> dispatch_cp(h, cur_dir, a_root, args).h,
        cwd |-> cur_dir,
        err |-> dispatch_cp(h, cur_dir, a_root, args).err]
  ELSE [h |-> h, cwd |-> cur_dir, err |-> "CommandNotFound"]

\* process_line
process_line(h, cur_dir, a_root, line) ==
  IF shlex_split(line, <<>>) = <<>> THEN [h |-> h, cwd |-> cur_dir, err |-> "ok"]
  ELSE dispatch(h, cur_dir, a_root,
                Head(shlex_split(line, <<>>)), Tail(shlex_split(line, <<>>)))

\* _run_script_with_ui: the loop over the lines from line number lineno;
\* log holds, for every line given to process_line, its number and whether
\* process_line returned True
RECURSIVE run_lines(_, _, _, _, _, _)
\* what follows process_line, without the break after a failed line
after_line_no_break(r, a_root, lines, lineno, log) ==
  run_lines(r.h, r.cwd, a_root, lines, lineno + 1,
            Append(log, [lineno |-> lineno, ok |-> r.err = "ok"]))

\* what follows ok = process_line(line), r being the state it leaves:
\* break when it returned False, the next line otherwise
after_line(r, a_root, lines, lineno, log) ==
  IF r.err # "ok"
  THEN [h |-> r.h, cwd |-> r.cwd,
        log |-> Append(log, [lineno |-> lineno, ok |-> FALSE]),
        stop |-> TRUE]
  ELSE run_lines(r.h, r.cwd, a_root, lines, lineno + 1,
                 Append(log, [lineno |-> lineno, ok |-> TRUE]))

run_lines(h, cur_dir, a_root, lines, lineno, log) ==
  IF lineno > Len(lines) THEN [h |-> h, cwd |-> cur_dir, log |-> log, stop |-> FALSE]
  ELSE IF Strip(lines[lineno]) = <<>> \/ Head(Strip(lines[lineno])) = "#"
  THEN run_lines(h, cur_dir, a_root, lines, lineno + 1, log)
  ELSE after_line(process_line(h, cur_dir, a_root, lines[lineno]),
                  a_root, lines, lineno, log)

\* _run_script_with_ui
run_script_with_ui(h, cur_dir, a_root, file) ==
  IF ~file.exists \/ ~file.readable
  THEN [h |-> h, cwd |-> cur_dir, log |-> <<>>, stop |-> FALSE]
  ELSE run_lines(h, cur_dir, a_root, file.lines, 1, <<>>)

\* ---------------------------------------------------------------- history
\* max(a, b) and min(a, b)
max(a, b) == IF a >= b THEN a ELSE b

min(a, b) == IF a <= b THEN a ELSE b

\* on_history_up: the cursor and the input field it leaves (hist_idx counts
\* from 0, as in the source)
on_history_up(hist, idx, text) ==
  IF hist = <<>> THEN [hist_idx |-> idx, inp |-> text]
  ELSE LET new == IF idx = NoIdx THEN Len(hist) - 1 ELSE max(0, idx - 1)
       IN [hist_idx |-> new, inp |-> hist[new + 1]]

\* on_history_down without the min
on_history_down_no_min(hist, idx, text) ==
  IF hist = <<>> \/ idx = NoIdx THEN [hist_idx |-> idx, inp |-> text]
  ELSE LET new == idx + 1
       IN [hist_idx |-> IF new = Len(hist) - 1 THEN NoIdx ELSE new,
           inp |-> IF new + 1 \in 1..Len(hist) THEN hist[new + 1] ELSE text]

\* on_history_down
on_history_down(hist, idx, text) ==
  IF hist = <<>> \/ idx = NoIdx THEN [hist_idx |-> idx, inp |-> text]
  ELSE LET new == min(Len(hist) - 1, idx + 1)
       IN [hist_idx |-> IF new = Len(hist) - 1 THEN NoIdx ELSE new,
           inp |-> hist[new + 1]]

\* on_enter: the part before process_line
on_enter(hist, idx, line) ==
  [history |-> IF Strip(line) # <<>> THEN Append(hist, line) ELSE hist,
   hist_idx |-> NoIdx,
   inp |-> <<>>]

\* ---------------------------------------------------------------- dependencies
\* version None
NoVersion == <<>>

\* the requirement the test-graph provider attaches to every dependency
GraphRequirement == <<"<", "g", "r", "a", "p", "h", ">">>

\* `sub in s` for strings
Contains(sub, s) ==
  \E i \in 0..(Len(s) - Len(sub)) :
    \A j \in 1..Len(sub) : s[i + j] = sub[j]

\* should_filter without the lower-casing
should_filter_case_sensitive(name, substring) ==
  IF substring = NoFilter THEN FALSE
  ELSE Contains(substring, name)

\* should_filter
should_filter(name, substring) ==
  IF substring = NoFilter THEN FALSE
  ELSE Contains(Lower(substring), Lower(name))

\* the provider create_graph_provider returns: graph.get(name, [])
provider(g, name, version) ==
  IF name \in DOMAIN g
  THEN [i \in 1..Len(g[name]) |->
          [name |-> g[name][i], requirement |-> GraphRequirement]]
  ELSE <<>>

\* the version a dependency is enqueued with
version_value(dep) ==
  IF dep.requirement = <<>> THEN NoVersion
  ELSE IF Head(dep.requirement) = "<" THEN NoVersion
  ELSE dep.requirement

\* the loop over the dependencies of one entry: what it adds to children,
\* queue and skipped
RECURSIVE scan_dependencies(_, _, _, _, _)
scan_dependencies(dependencies, i, depth, substring, acc) ==
  IF i > Len(dependencies) THEN acc
  ELSE LET dep == dependencies[i]
       IN IF should_filter(dep.name, substring)
          THEN scan_dependencies(dependencies, i + 1, depth, substring,
                 [acc EXCEPT !.skipped = Append(@, dep.name)])
          ELSE scan_dependencies(dependencies, i + 1, depth, substring,
                 [acc EXCEPT
                    !.children = Append(@, dep.name),
                    !.queue = Append(@, [name |-> dep.name,
                                         version |-> version_value(dep),
                                         depth |-> depth + 1])])

\* the body of the while loop with the depth test `depth <= max_depth`
visit_one_deeper(g, item, limit, substring) ==
  LET dependencies == provider(g, item.name, item.version)
      none == [children |-> <<>>, queue |-> <<>>, skipped |-> <<>>]
  IN IF item.depth <= limit
     THEN scan_dependencies(dependencies, 1, item.depth, substring, none)
     ELSE none

\* the body of the while loop for an item whose key is new: the children
\* of the entry, the items enqueued and the names skipped
visit(g, item, limit, substring) ==
  LET dependencies == provider(g, item.name, item.version)
      none == [children |-> <<>>, queue |-> <<>>, skipped |-> <<>>]
  IN IF item.depth < limit
     THEN scan_dependencies(dependencies, 1, item.depth, substring, none)
     ELSE none

\* key = (name.lower(), version)
key_of(item) == <<Lower(item.name), item.version>>

\* `key in visited` with the test always false
seen_never(key, seen) == FALSE

\* `key in visited`
seen_before(key, seen) == key \in seen

\* ---------------------------------------------------------------- loaders
\* An XML element: its tag, its name attribute (<<>> when absent), its
\* base64 attribute, its text, and its child elements.
El(tag, name, base64, text, kids) ==
  [tag |-> tag, name |-> name, base64 |-> base64, text |-> text, kids |-> kids]

\* base64.b64decode(text, validate=True) on the texts in use
b64decode(text) ==
  CASE text = "eA==" -> [data |-> "x", err |-> "ok"]
    [] text = "eQ==" -> [data |-> "y", err |-> "ok"]
    [] text = ""     -> [data |-> "", err |-> "ok"]
    [] OTHER         -> [data |-> "", err |-> "ValueError"]

\* _build_dir_from_xml: the loop over the children of dir_el from the i-th
RECURSIVE build_dir_from_xml(_, _, _, _)
build_dir_from_xml(h, kids, i, vdir) ==
  IF i > Len(kids) THEN [h |-> h, err |-> "ok"]
  ELSE LET child == kids[i]
       IN IF child.tag = "dir"
          THEN IF child.name = <<>> THEN [h |-> h, err |-> "ValueError"]
               ELSE LET d == add_dir(h, vdir, child.name)
                    IN IF d.err # "ok" THEN [h |-> h, err |-> "ValueError"]
                       ELSE LET sub == build_dir_from_xml(d.h, child.kids, 1, d.ret)
                            IN IF sub.err # "ok" THEN sub
                               ELSE build_dir_from_xml(sub.h, kids, i + 1, vdir)
          ELSE IF child.tag = "file"
          THEN IF child.name = <<>> THEN [h |-> h, err |-> "ValueError"]
               ELSE LET data == IF child.base64 THEN b64decode(child.text)
                                ELSE [data |-> child.text, err |-> "ok"]
                    IN IF data.err # "ok" THEN [h |-> h, err |-> "ValueError"]
                       ELSE LET f == add_file(h, vdir, child.name, data.data)
                            IN IF f.err # "ok" THEN [h |-> h, err |-> "ValueError"]
                               ELSE build_dir_from_xml(f.h, kids, i + 1, vdir)
          ELSE build_dir_from_xml(h, kids, i + 1, vdir)

\* a loader that raises err hands back no tree
NoTree(err) == [h |-> <<>>, root |-> None, err |-> err]

\* a loader returns the root it has filled (node 1 of b.h) unless filling
\* it raised
Loaded(b) ==
  IF b.err # "ok" THEN NoTree(b.err)
  ELSE [h |-> b.h, root |-> 1, err |-> "ok"]

\* load_vfs_from_xml; src.doc is the root element of the document in the
\* file, src.wellformed tells whether the file is XML at all.  A file that
\* cannot be opened makes ET.parse raise PermissionError.
load_vfs_from_xml(src) ==
  IF ~src.exists THEN NoTree("FileNotFoundError")
  ELSE IF ~src.readable THEN NoTree("PermissionError")
  ELSE IF ~src.wellformed THEN NoTree("ValueError")
  ELSE IF src.doc.tag # "vfs" THEN NoTree("ValueError")
  ELSE LET dirs == SelectSeq(src.doc.kids,
                             LAMBDA el : el.tag = "dir" /\ el.name = <<"/">>)
       IN IF dirs = <<>> THEN NoTree("ValueError")
          ELSE Loaded(build_dir_from_xml(<<VDir(<<"/">>, None)>>, dirs[1].kids, 1, 1))

\* _import_physical_dir_to_vfs: walk(host_dir, vdir) from the i-th sorted
\* entry.  iterdir of a directory that cannot be listed raises
\* PermissionError; a file that cannot be read is imported empty.
RECURSIVE import_walk(_, _, _, _)
import_walk(h, listing, i, vdir) ==
  IF i > Len(listing) THEN [h |-> h, err |-> "ok"]
  ELSE LET entry == listing[i]
       IN IF entry.is_dir
          THEN LET d == add_dir(h, vdir, entry.name)
               IN IF ~entry.readable THEN [h |-> h, err |-> "PermissionError"]
                  ELSE LET sub == import_walk(d.h, SortedItems(entry.kids), 1, d.ret)
                       IN IF sub.err # "ok" THEN sub
                          ELSE import_walk(sub.h, listing, i + 1, vdir)
          ELSE LET f == add_file(h, vdir, entry.name,
                                 IF entry.readable THEN entry.data ELSE "")
               IN import_walk(f.h, listing, i + 1, vdir)

import_physical_dir_to_vfs(src) ==
  IF ~src.readable THEN NoTree("PermissionError")
  ELSE Loaded(import_walk(<<VDir(<<"/">>, None)>>, SortedItems(src.kids), 1, 1))

\* names and contents of the built-in tree
Etc == <<"e", "t", "c">>
Home == <<"h", "o", "m", "e">>
User == <<"u", "s", "e", "r">>
Readme == <<"r", "e", "a", "d", "m", "e", ".", "t", "x", "t">>
Motd == <<"m", "o", "t", "d">>
Notes == <<"n", "o", "t", "e", "s", ".", "t", "x", "t">>

\* a directory entry: children[name] = node
Child(name, node) == [name |-> name, node |-> node]

\* _default_vfs: the tree it builds, nodes numbered in the order in which
\* they are created (root, etc, home, user, readme.txt, motd, notes.txt)
default_vfs ==
  [h |-> << [VDir(<<"/">>, None) EXCEPT
               !.children = <<Child(Etc, 2), Child(Home, 3), Child(Readme, 5)>>],
            [VDir(Etc, 1) EXCEPT !.children = <<Child(Motd, 6)>>],
            [VDir(Home, 1) EXCEPT !.children = <<Child(User, 4)>>],
            [VDir(User, 3) EXCEPT !.children = <<Child(Notes, 7)>>],
            VFile(Readme, "This is VFS", 1),
            VFile(Motd, "motd", 2),
            VFile(Notes, "notes", 4) >>,
   root |-> 1]

\* what the loader chosen by _init_vfs hands back: a tree, or the exception
\* it raises
load_source(src) ==
  IF src.kind = "xml" THEN load_vfs_from_xml(src)
  ELSE IF src.kind = "dir" THEN import_physical_dir_to_vfs(src)
  ELSE NoTree("FileNotFoundError")

\* _init_vfs goes on with the built-in tree; err is the error it caught
DefaultStart(err) ==
  [h |-> default_vfs.h, vfs_root |-> default_vfs.root, cwd |-> default_vfs.root,
   err |-> err]

\* _init_vfs after the loader has returned the tree l or raised l.err.
\* FileNotFoundError and ValueError are caught and answered by the default
\* tree; any other exception leaves _init_vfs before vfs_root and cwd are
\* assigned.
Started(l) ==
  IF l.err = "ok"
  THEN [h |-> l.h, vfs_root |-> l.root, cwd |-> l.root, err |-> "ok"]
  ELSE IF l.err \in {"FileNotFoundError", "ValueError"}
  THEN DefaultStart(l.err)
  ELSE [h |-> <<>>, vfs_root |-> None, cwd |-> None, err |-> l.err]

\* _init_vfs: the tree and the error it ends with
init_vfs(src) ==
  IF src.kind = "none" THEN DefaultStart("ok")
  ELSE Started(load_source(src))

\* ---------------------------------------------------------------- state
NodeIds == 1..Len(nodes)
Dirs == {n \in NodeIds : nodes[n].kind = "dir"}

\* `last` is what the most recent call handed back to its caller: which
\* operation ran, the kind of error it raised or reported ("ok" when none),
\* and the node it returned (None when it returns no node).
NoCall == [op |-> "init", err |-> "ok", ret |-> None]

\* root = VDir("/")
Init ==
  /\ nodes = <<VDir(<<"/">>, None)>>
  /\ vfs_root = 1
  /\ cwd = 1
  /\ last = NoCall
  /\ UiIdle
  /\ DepIdle

CanAllocate == Len(nodes) < MaxNodes

ShellOpen == Len(nodes) < MaxShellNodes

\* add_directory(d, name)
AddDir(d, name) ==
  /\ CanAllocate
  /\ LET r == add_dir(nodes, d, name)
     IN /\ nodes' = r.h
        /\ last' = [NoCall EXCEPT !.op = "add_dir", !.err = r.err, !.ret = r.ret]
  /\ UNCHANGED <<vfs_root, cwd, uiVars, depVars>>

\* add_file(d, name, content)
AddFile(d, name, content) ==
  /\ CanAllocate
  /\ LET r == add_file(nodes, d, name, content)
     IN /\ nodes' = r.h
        /\ last' = [NoCall EXCEPT !.op = "add_file", !.err = r.err, !.ret = r.ret]
  /\ UNCHANGED <<vfs_root, cwd, uiVars, depVars>>

\* copy(source, dest_parent, dest_name)
Copy(src, d, name) ==
  /\ CanAllocate
  /\ LET r == copy_recursive(nodes, src, d, name, 1)
     IN /\ nodes' = r.h
        /\ last' = [NoCall EXCEPT !.op = "copy", !.err = r.err]
  /\ UNCHANGED <<vfs_root, cwd, uiVars, depVars>>

\* Paths typed at the prompt.
ShellPaths ==
  {<<"/">>, <<"a">>, <<"b">>, <<"/", "a">>, <<"a", "/", "b">>, <<".", ".">>}

CdArgs == {<<>>} \cup {<<p>> : p \in ShellPaths}
TouchArgs == {<<>>} \cup {<<p>> : p \in ShellPaths}
CpArgs ==
  {<<p>> : p \in ShellPaths}
    \cup {<<p, q>> : p \in ShellPaths, q \in ShellPaths}
    \cup {<<DashR, p, q>> : p \in ShellPaths, q \in ShellPaths}

\* process_line("cd ...")
Cd(args) ==
  /\ ShellOpen
  /\ LET r == dispatch_cd(nodes, cwd, vfs_root, args)
     IN /\ cwd' = r.cwd
        /\ last' = [NoCall EXCEPT !.op = "cd", !.err = r.err]
  /\ UNCHANGED <<nodes, vfs_root, uiVars, depVars>>

\* process_line("touch ...")
Touch(args) ==
  /\ ShellOpen
  /\ LET r == dispatch_touch(nodes, cwd, vfs_root, args)
     IN /\ nodes' = r.h
        /\ last' = [NoCall EXCEPT !.op = "touch", !.err = r.err]
  /\ UNCHANGED <<vfs_root, cwd, uiVars, depVars>>

\* process_line("cp ...")
Cp(args) ==
  /\ ShellOpen
  /\ LET r == dispatch_cp(nodes, cwd, vfs_root, args)
     IN /\ nodes' = r.h
        /\ last' = [NoCall EXCEPT !.op = "cp", !.err = r.err]
  /\ UNCHANGED <<vfs_root, cwd, uiVars, depVars>>

Next ==
  \/ \E d \in Dirs, name \in Names : AddDir(d, name)
  \/ \E d \in Dirs, name \in Names, content \in Contents : AddFile(d, name, content)
  \/ \E src \in NodeIds, d \in Dirs, name \in Names : Copy(src, d, name)
  \/ \E args \in CdArgs : Cd(args)
  \/ \E args \in TouchArgs : Touch(args)
  \/ \E args \in CpArgs : Cp(args)

Spec == Init /\ [][Next]_vars

\* ---------------------------------------------------------------- start-up
\* What vfs_source can name: nothing, a path that does not exist, an .xml
\* file, a directory of the host.
Source(kind, readable, wellformed, doc, kids) ==
  [kind |-> kind, exists |-> kind \in {"xml", "dir"}, readable |-> readable,
   wellformed |-> wellformed, doc |-> doc, kids |-> kids]

NoEl == El("", <<>>, FALSE, "", <<>>)

XmlFile(readable, wellformed, doc) == Source("xml", readable, wellformed, doc, <<>>)

\* an entry of a host directory
HostEntry(name, is_dir, readable, data, kids) ==
  [name |-> name, is_dir |-> is_dir, readable |-> readable, data |-> data, kids |-> kids]

\* <vfs><dir name="/"> kids </dir></vfs>
VfsDoc(kids) == El("vfs", <<>>, FALSE, "", <<El("dir", <<"/">>, FALSE, "", kids)>>)

VfsSources ==
  { Source("none", TRUE, TRUE, NoEl, <<>>),
    Source("missing", TRUE, TRUE, NoEl, <<>>),
    XmlFile(FALSE, TRUE, VfsDoc(<<>>)),
    XmlFile(TRUE, FALSE, NoEl),
    XmlFile(TRUE, TRUE, El("other", <<>>, FALSE, "", <<>>)),
    XmlFile(TRUE, TRUE, El("vfs", <<>>, FALSE, "", <<El("dir", <<"a">>, FALSE, "", <<>>)>>)),
    XmlFile(TRUE, TRUE, VfsDoc(<<El("file", <<"a">>, FALSE, "x", <<>>),
                                 El("dir", <<>>, FALSE, "", <<>>)>>)),
    XmlFile(TRUE, TRUE, VfsDoc(<<El("file", <<"a">>, TRUE, "x", <<>>)>>)),
    XmlFile(TRUE, TRUE, VfsDoc(<<>>)),
    XmlFile(TRUE, TRUE, VfsDoc(<<El("dir", <<"a">>, FALSE, "",
                                    <<El("file", <<"b">>, FALSE, "x", <<>>)>>),
                                 El("note", <<>>, FALSE, "", <<>>),
                                 El("file", <<"b">>, TRUE, "eQ==", <<>>)>>)),
    XmlFile(TRUE, TRUE, VfsDoc(<<El("dir", <<".">>, FALSE, "", <<>>),
                                 El("file", <<"a", "/", "b">>, FALSE, "x", <<>>)>>)),
    Source("dir", FALSE, TRUE, NoEl, <<>>),
    Source("dir", TRUE, TRUE, NoEl,
           <<HostEntry(<<"b">>, FALSE, FALSE, "y", <<>>),
             HostEntry(<<"a">>, TRUE, TRUE, "",
                       <<HostEntry(<<"a">>, FALSE, TRUE, "x", <<>>)>>)>>),
    Source("dir", TRUE, TRUE, NoEl,
           <<HostEntry(<<"a">>, TRUE, FALSE, "", <<>>)>>) }

\* the state of a ShellEmulator whose constructor has not reached _init_vfs
InitShell ==
  /\ nodes = <<>>
  /\ vfs_root = None
  /\ cwd = None
  /\ last = NoCall
  /\ UiIdle
  /\ DepIdle

\* _init_vfs(vfs_source)
InitVfs(src) ==
  /\ last.op = "init"
  /\ \E r \in {init_vfs(src)} :
        /\ nodes' = r.h
        /\ vfs_root' = r.vfs_root
        /\ cwd' = r.cwd
        /\ last' = [NoCall EXCEPT !.op = "init_vfs", !.err = r.err]
  /\ UNCHANGED <<uiVars, depVars>>

\* Lines given to process_line.
ShellLines ==
  { <<>>,
    <<"p", "w", "d">>,
    <<"l", "s", " ", "b">>,
    <<"z", "z">>,
    <<"u", "n", "a", "m", "e", " ", "-", "x">>,
    <<"f", "i", "n", "d", " ", "-", "m", "a", "x", "d", "e", "p", "t", "h", " ", "1">>,
    <<"c", "d">>,
    <<"c", "d", " ", "e", "t", "c">>,
    <<"c", "d", " ", ".", ".">>,
    <<"c", "d", " ", "a">>,
    <<"t", "o", "u", "c", "h", " ", "a">>,
    <<"t", "o", "u", "c", "h", " ", "b">>,
    <<"t", "o", "u", "c", "h", " ", "e", "t", "c">>,
    <<"t", "o", "u", "c", "h", " ", "a", "/", "b">>,
    <<"c", "p", " ", "a", " ", "b">>,
    <<"c", "p", " ", "a", " ", "e", "t", "c">>,
    <<"c", "p", " ", "-", "r", " ", "/", " ", "/">>,
    <<"c", "p", " ", "-", "r", " ", "e", "t", "c", " ", "a">> }

TreeOpen == Len(nodes) < MaxTreeNodes

\* process_line(line)
ProcessLine(line) ==
  /\ vfs_root # None
  /\ TreeOpen
  /\ \E r \in {process_line(nodes, cwd, vfs_root, line)} :
        /\ nodes' = r.h
        /\ cwd' = r.cwd
        /\ last' = [NoCall EXCEPT !.op = "process_line", !.err = r.err]
  /\ UNCHANGED <<vfs_root, uiVars, depVars>>

NextShell ==
  \/ \E src \in VfsSources : InitVfs(src)
  \/ \E line \in ShellLines : ProcessLine(line)

SpecShell == InitShell /\ [][NextShell]_vars

\* ---------------------------------------------------------------- script
\* Lines of start-up scripts.
ScriptLines ==
  { <<>>, <<" ">>, <<"#", " ", "z", "z">>, <<"z", "z">>, <<"t", "o", "u", "c", "h", " ", "a">>, <<"c", "d", " ", "e", "t", "c">>, <<"c", "d", " ", "a">> }

ScriptFiles ==
  {NoScript, [exists |-> TRUE, readable |-> FALSE, lines |-> <<>>]}
    \cup {[exists |-> TRUE, readable |-> TRUE, lines |-> l] :
            l \in UNION {[1..n -> ScriptLines] : n \in 0..MaxScriptLen}}

\* ShellEmulator(vfs_source=None, ...): the state the constructor leaves
InitDefault ==
  /\ nodes = default_vfs.h
  /\ vfs_root = default_vfs.root
  /\ cwd = default_vfs.root
  /\ last = [NoCall EXCEPT !.op = "init_vfs"]
  /\ UiIdle
  /\ DepIdle

\* the callback the constructor schedules once: _run_script_with_ui(file)
RunScript(file) ==
  /\ last.op = "init_vfs"
  /\ \E r \in {run_script_with_ui(nodes, cwd, vfs_root, file)} :
        /\ nodes' = r.h
        /\ cwd' = r.cwd
        /\ script_log' = r.log
        /\ last' = [NoCall EXCEPT !.op = "script",
                                  !.err = IF r.stop THEN "stopped" ELSE "ok"]
  /\ script' = file
  /\ UNCHANGED <<vfs_root, history, hist_idx, inp, depVars>>

NextScript == \E file \in ScriptFiles : RunScript(file)

SpecScript == InitDefault /\ [][NextScript]_vars

\* ---------------------------------------------------------------- prompt
\* Lines typed at the prompt.
TypedLines ==
  { <<>>, <<" ">>, <<"z", "z">>, <<"c", "d", " ", "e", "t", "c">> }

\* the user edits the input field
Type(line) ==
  /\ inp' = line
  /\ last' = [NoCall EXCEPT !.op = "type"]
  /\ UNCHANGED <<nodes, vfs_root, cwd, history, hist_idx, script, script_log, depVars>>

\* <Return>: on_enter
Enter ==
  /\ Len(history) < MaxHistory
  /\ \E e \in {on_enter(history, hist_idx, inp)},
        r \in {process_line(nodes, cwd, vfs_root, inp)} :
        /\ history' = e.history
        /\ hist_idx' = e.hist_idx
        /\ inp' = e.inp
        /\ nodes' = r.h
        /\ cwd' = r.cwd
        /\ last' = [NoCall EXCEPT !.op = "enter", !.err = r.err]
  /\ UNCHANGED <<vfs_root, script, script_log, depVars>>

\* <Up>: on_history_up
HistoryUp ==
  /\ LET r == on_history_up(history, hist_idx, inp)
     IN hist_idx' = r.hist_idx /\ inp' = r.inp
  /\ last' = [NoCall EXCEPT !.op = "up"]
  /\ UNCHANGED <<nodes, vfs_root, cwd, history, script, script_log, depVars>>

\* <Down>: on_history_down
HistoryDown ==
  /\ LET r == on_history_down(history, hist_idx, inp)
     IN hist_idx' = r.hist_idx /\ inp' = r.inp
  /\ last' = [NoCall EXCEPT !.op = "down"]
  /\ UNCHANGED <<nodes, vfs_root, cwd, history, script, script_log, depVars>>

NextRepl ==
  \/ \E line \in TypedLines : Type(line)
  \/ Enter
  \/ HistoryUp
  \/ HistoryDown

SpecRepl == InitDefault /\ [][NextRepl]_vars

\* ---------------------------------------------------------------- dependency graph
\* Package names of the test graphs.
Packages == { <<"a">>, <<"A">>, <<"b">>, <<"c">> }

\* Root packages given with --package.
RootPackages == { <<"a">>, <<"b">> }

\* Values of --filter (NoFilter: the option is absent).
Filters == { NoFilter, <<"A">> }

\* Edge lists (package, dependency) of up to MaxEdges edges.
EdgeLists ==
  UNION { [1..n -> Packages \X Packages] : n \in 0..MaxEdges }

\* The dependencies of package p in an edge list, in the order written.
RECURSIVE DepsIn(_, _, _)
DepsIn(es, i, p) ==
  IF i > Len(es) THEN <<>>
  ELSE IF es[i][1] = p THEN <<es[i][2]>> \o DepsIn(es, i + 1, p)
  ELSE DepsIn(es, i + 1, p)

\* The dictionary parse_graph_definition returns for a definition with
\* these edges: every package is a key.
GraphOf(es) == [p \in Packages |-> DepsIn(es, 1, p)]

\* build_dependency_graph is entered from main in test-graph mode.
InitDeps ==
  /\ nodes = <<>>
  /\ vfs_root = None
  /\ cwd = None
  /\ last = NoCall
  /\ UiIdle
  /\ \E es \in EdgeLists : graph = GraphOf(es)
  /\ root_name \in RootPackages
  /\ max_depth \in 1..MaxDepthArg
  /\ filter_substring \in Filters
  /\ queue = <<[name |-> root_name, version |-> NoVersion, depth |-> 0]>>
  /\ visited = {}
  /\ entries = <<>>
  /\ edges = <<>>
  /\ skipped = <<>>

\* One pass of the while loop for an item whose key was visited: continue.
SkipVisited ==
  /\ queue # <<>>
  /\ seen_before(key_of(Head(queue)), visited)
  /\ queue' = Tail(queue)
  /\ last' = [NoCall EXCEPT !.op = "continue"]
  /\ UNCHANGED <<nodes, vfs_root, cwd, uiVars, graph, root_name, max_depth,
                 filter_substring, visited, entries, edges, skipped>>

\* One pass of the while loop for an item whose key is new.
Visit ==
  /\ queue # <<>>
  /\ ~seen_before(key_of(Head(queue)), visited)
  /\ LET item == Head(queue)
         key == key_of(item)
         r == visit(graph, item, max_depth, filter_substring)
     IN /\ visited' = visited \cup {key}
        /\ entries' = Append(entries, item)
        /\ queue' = Tail(queue) \o r.queue
        /\ skipped' = skipped \o r.skipped
        /\ edges' = [k \in DOMAIN edges \cup {key} |->
                       IF k = key THEN r.children ELSE edges[k]]
  /\ last' = [NoCall EXCEPT !.op = "visit"]
  /\ UNCHANGED <<nodes, vfs_root, cwd, uiVars, graph, root_name, max_depth,
                 filter_substring>>

NextDeps ==
  \/ SkipVisited
  \/ Visit

SpecDeps == InitDeps /\ [][NextDeps]_vars

\* The loop runs on while the queue is not empty.
SpecDepsFair == SpecDeps /\ WF_vars(NextDeps)

\* ---------------------------------------------------------------- tree views
\* the nodes a directory's mapping holds
ChildIds(h, d) == {h[d].children[i].node : i \in 1..Len(h[d].children)}

\* nodes reached from the set S by following children at most k times
RECURSIVE ReachK(_, _, _)
ReachK(h, S, k) ==
  IF k = 0 THEN S
  ELSE ReachK(h, S \cup UNION {ChildIds(h, n) : n \in S}, k - 1)

\* the tree: every node reachable from the root
Reach(h, a_root) == ReachK(h, {a_root}, Len(h))

\* proper descendants of a node
Descendants(h, n) == ReachK(h, ChildIds(h, n), Len(h))

\* the node reached from n by following `parent` k times (None past the top)
RECURSIVE Up(_, _, _)
Up(h, n, k) ==
  IF k = 0 \/ n = None THEN n ELSE Up(h, h[n].parent, k - 1)

\* structure of the subtree at n: child names, node types, file contents
RECURSIVE Shape(_, _)
Shape(h, n) ==
  [kind |-> h[n].kind, content |-> h[n].content,
   kids |-> {<<h[n].children[i].name, Shape(h, h[n].children[i].node)>> :
               i \in 1..Len(h[n].children)}]

Files == {n \in NodeIds : nodes[n].kind = "file"}

\* ---------------------------------------------------------------- listings
\* list_names: every name, a directory's with "/" appended, sorted by
\* names.sort(key=lambda s: s.lower())
Decorated(h, kids) ==
  [i \in 1..Len(kids) |->
     [name |-> IF IsDir(h, kids[i].node) THEN kids[i].name \o <<"/">> ELSE kids[i].name,
      node |-> kids[i].node]]

list_names(h, d) ==
  LET sorted == SortedItems(Decorated(h, h[d].children))
  IN [i \in 1..Len(sorted) |-> sorted[i].name]

\* maxdepth=None of _walk_vfs
NoDepth == -1

\* sorted(node.children.keys(), key=str.lower, reverse=True) : stable,
\* descending
RECURSIVE InsertSortedReverse(_, _)
InsertSortedReverse(sorted, e) ==
  IF sorted = <<>> THEN <<e>>
  ELSE IF StrLess(Lower(Head(sorted).name), Lower(e.name))
       THEN <<e>> \o sorted
       ELSE <<Head(sorted)>> \o InsertSortedReverse(Tail(sorted), e)

RECURSIVE SortedItemsReverse(_)
\* the same keys in ascending order
SortedItemsAscending(kids) == SortedItems(kids)

SortedItemsReverse(kids) ==
  IF kids = <<>> THEN <<>>
  ELSE InsertSortedReverse(SortedItemsReverse(SubSeq(kids, 1, Len(kids) - 1)),
                           kids[Len(kids)])

\* _walk_vfs: the stack loop; `out` collects what the generator yields
RECURSIVE walk_loop(_, _, _, _)
\* the loop that still descends from a node at depth maxdepth
walk_loop_one_deeper(h, stack, maxdepth, out) ==
  IF stack = <<>> THEN out
  ELSE LET top == stack[Len(stack)]
           rest == SubSeq(stack, 1, Len(stack) - 1)
           keys == SortedItemsReverse(h[top.node].children)
           pushed == [i \in 1..Len(keys) |-> [node |-> keys[i].node, depth |-> top.depth + 1]]
       IN walk_loop(h,
                    IF IsDir(h, top.node) /\ (maxdepth = NoDepth \/ top.depth <= maxdepth)
                    THEN rest \o pushed ELSE rest,
                    maxdepth, Append(out, top))

walk_loop(h, stack, maxdepth, out) ==
  IF stack = <<>> THEN out
  ELSE LET top == stack[Len(stack)]
           rest == SubSeq(stack, 1, Len(stack) - 1)
           keys == SortedItemsReverse(h[top.node].children)
           pushed == [i \in 1..Len(keys) |-> [node |-> keys[i].node, depth |-> top.depth + 1]]
       IN walk_loop(h,
                    IF IsDir(h, top.node) /\ (maxdepth = NoDepth \/ top.depth < maxdepth)
                    THEN rest \o pushed ELSE rest,
                    maxdepth, Append(out, top))

walk(h, start, maxdepth) ==
  walk_loop(h, <<[node |-> start, depth |-> 0]>>, maxdepth, <<>>)

\* ---------------------------------------------------------------- trees with
\* names that differ only in case
OrderNames == {<<"a">>, <<"A">>}

OrderContent == "x"

NextOrder ==
  \/ \E d \in Dirs, name \in OrderNames : AddDir(d, name)
  \/ \E d \in Dirs, name \in OrderNames : AddFile(d, name, OrderContent)

SpecOrder == Init /\ [][NextOrder]_vars

\* permutations of 1..n
Perms(n) == {p \in [1..n -> 1..n] : \A i, j \in 1..n : p[i] = p[j] => i = j}

\* a fresh root directory filled with copies of the children of d, copied
\* in the order p
RECURSIVE CopyInOrder(_, _, _, _, _)
CopyInOrder(h, kids, p, i, new_dir) ==
  IF i > Len(kids) THEN h
  ELSE CopyInOrder(copy_recursive(h, kids[p[i]].node, new_dir, kids[p[i]].name, 1).h,
                   kids, p, i + 1, new_dir)

Rebuilt(d, p) ==
  CopyInOrder(Append(nodes, VDir(<<"/">>, None)), nodes[d].children, p, 1, Len(nodes) + 1)

\* what a walk shows of the nodes below its start: name, type, content, depth
WalkView(h, start, maxdepth) ==
  LET w == walk(h, start, maxdepth)
  IN [i \in 1..(Len(w) - 1) |->
        [name |-> h[w[i + 1].node].name, kind |-> h[w[i + 1].node].kind,
         content |-> h[w[i + 1].node].content, depth |-> w[i + 1].depth]]

\* ---------------------------------------------------------------- claims

\* C1: copy(source, dest_parent, dest_name) is all-or-nothing: either the
\* call succeeds and the destination exists with the structure of the
\* source, or the call fails and the tree is exactly as it was before.
CopyAllOrNothing ==
  [][last'.op = "copy" => \A src \in NodeIds, d \in Dirs, name \in Names :
       Copy(src, d, name) =>
         IF last'.err = "ok"
         THEN /\ Get(nodes', d, name) # None
              /\ Shape(nodes', Get(nodes', d, name)) = Shape(nodes, src)
         ELSE nodes' = nodes]_vars

\* C2: every copy runs to completion by itself: the recursion of
\* _copy_recursive ends after finitely many nested calls for every source
\* and destination of the same tree, so no copy (and no cp built on it) is
\* ever cut off by the interpreter's recursion limit.
CopyRunsToCompletion ==
  last.op \in {"copy", "cp"} => last.err # "RecursionError"

\* C3: every non-root node reachable from the root has a parent directory
\* whose child mapping contains that very node under the node's own name.
ParentHoldsChild ==
  \A n \in Reach(nodes, vfs_root) \ {vfs_root} :
    /\ IsDir(nodes, nodes[n].parent)
    /\ Get(nodes, nodes[n].parent, nodes[n].name) = n

\* C3 witness: a copy has built a nested subtree (a node two levels below
\* the root exists after a successful copy or cp).
ParentHoldsChildWitness ==
  /\ last.op \in {"copy", "cp"}
  /\ last.err = "ok"
  /\ \E n \in Reach(nodes, vfs_root) : Up(nodes, n, 2) # None

\* C4: when add_file (directly, through touch, or through a copy of a file)
\* targets a name already held by a file, the existing file node is kept
\* and only its content changes; no node that was a child of a directory
\* stops being a child of that directory.
FileOverwriteKeepsNode ==
  [][\A d \in Dirs : ChildIds(nodes, d) \subseteq ChildIds(nodes', d)]_vars

\* C5: the tree has no cycles: the root is the only parentless node, the
\* parent chain of every node reaches the root in finitely many steps, and
\* no node is a descendant of itself.
NoCycles ==
  /\ nodes[vfs_root].parent = None
  /\ \A n \in NodeIds :
       /\ (n # vfs_root => nodes[n].parent # None)
       /\ \E k \in 0..Len(nodes) : Up(nodes, n, k) = vfs_root
       /\ n \notin Descendants(nodes, n)

\* C5 witness: a directory has been copied below itself (the copy was cut
\* off), the case where a cycle would be closest.
NoCyclesWitness ==
  /\ last.op \in {"copy", "cp"}
  /\ last.err = "RecursionError"
  /\ \E n \in NodeIds : Up(nodes, n, 3) # None

\* C6: copying a directory to a name that does not exist in dest_parent
\* creates a new directory whose subtree is structurally equal to the
\* source subtree (same child names, node types and file contents).
CopyDirReproducesSubtree ==
  [][last'.op = "copy" => \A src \in Dirs, d \in Dirs, name \in Names :
       (Get(nodes, d, name) = None /\ Copy(src, d, name)) =>
         /\ last'.err = "ok"
         /\ Get(nodes', d, name) \notin NodeIds
         /\ IsDir(nodes', Get(nodes', d, name))
         /\ Shape(nodes', Get(nodes', d, name)) = Shape(nodes, src)]_vars

\* C7: copy of a directory source onto a dest_name that already exists in
\* dest_parent, as a file or as a directory, fails with AlreadyExists and
\* leaves the whole tree unchanged; cp of a directory refused because its
\* target exists leaves the tree unchanged as well.
DirCopyOntoExistingFails ==
  [][/\ last'.op = "copy" =>
          \A src \in Dirs, d \in Dirs, name \in Names :
            (Get(nodes, d, name) # None /\ Copy(src, d, name)) =>
              (last'.err = "AlreadyExists" /\ nodes' = nodes)
     /\ (last'.op \in {"copy", "cp"} /\ last'.err \in {"AlreadyExists", "DirOntoFile"})
          => nodes' = nodes]_vars

\* C7 witness: a directory copy was refused with AlreadyExists.
DirCopyOntoExistingWitness ==
  /\ last.op = "copy"
  /\ last.err = "AlreadyExists"
  /\ \E d \in Dirs : Len(nodes[d].children) >= 2

\* C8: creating a node over an existing node of the opposite type fails
\* with TypeConflict and leaves the tree unchanged: add_directory over a
\* file, add_file over a directory, copy of a file onto a directory's name.
OppositeTypeConflict ==
  [][/\ last'.op = "add_dir" =>
          \A d \in Dirs, name \in Names :
            (IsFile(nodes, Get(nodes, d, name)) /\ AddDir(d, name)) =>
              (last'.err = "TypeConflict" /\ nodes' = nodes)
     /\ last'.op = "add_file" =>
          \A d \in Dirs, name \in Names, content \in Contents :
            (IsDir(nodes, Get(nodes, d, name)) /\ AddFile(d, name, content)) =>
              (last'.err = "TypeConflict" /\ nodes' = nodes)
     /\ last'.op = "copy" =>
          \A src \in Files, d \in Dirs, name \in Names :
            (IsDir(nodes, Get(nodes, d, name)) /\ Copy(src, d, name)) =>
              (last'.err = "TypeConflict" /\ nodes' = nodes)]_vars

\* C8 witness: a copy of a file was refused with TypeConflict.
OppositeTypeConflictWitness ==
  /\ last.op = "copy"
  /\ last.err = "TypeConflict"

\* C9: add_directory(d, n) is idempotent: for a name not held by a file the
\* call returns the directory now held under n; when n already holds a
\* directory (a second call) it returns that same node and the tree, the
\* child count of d and the subtree under n included, is unchanged.
AddDirIdempotent ==
  [][last'.op = "add_dir" => \A d \in Dirs, name \in Names :
       (~IsFile(nodes, Get(nodes, d, name)) /\ AddDir(d, name)) =>
         /\ last'.err = "ok"
         /\ IsDir(nodes', last'.ret)
         /\ last'.ret = Get(nodes', d, name)
         /\ Get(nodes, d, name) # None =>
              /\ last'.ret = Get(nodes, d, name)
              /\ Len(nodes'[d].children) = Len(nodes[d].children)
              /\ nodes' = nodes]_vars

\* C9 witness: add_directory returned a directory that has children, so
\* the directory existed before the call.
AddDirIdempotentWitness ==
  /\ last.op = "add_dir"
  /\ last.err = "ok"
  /\ nodes[last.ret].children # <<>>

\* C10: add_file(d, n, content2) on a name that add_file gave to a file
\* leaves exactly one child named n in d, a file whose content equals
\* content2, and every other child of d unchanged.
AddFileTwice ==
  [][last'.op = "add_file" => \A d \in Dirs, name \in Names, content2 \in Contents :
       (IsFile(nodes, Get(nodes, d, name)) /\ AddFile(d, name, content2)) =>
         LET kids == nodes[d].children
             kids2 == nodes'[d].children
         IN /\ last'.err = "ok"
            /\ Cardinality({i \in 1..Len(kids2) : kids2[i].name = name}) = 1
            /\ IsFile(nodes', Get(nodes', d, name))
            /\ nodes'[Get(nodes', d, name)].content = content2
            /\ Len(kids2) = Len(kids)
            /\ \A i \in 1..Len(kids) :
                 kids[i].name # name =>
                   /\ kids2[i] = kids[i]
                   /\ nodes'[kids[i].node] = nodes[kids[i].node]]_vars

\* C10 witness: add_file replaced a file of another content in a directory
\* that has a second child.
AddFileTwiceWitness ==
  /\ last.op = "add_file"
  /\ last.err = "ok"
  /\ \E o \in Files \ {last.ret} :
       /\ nodes[o].parent = nodes[last.ret].parent
       /\ nodes[o].name = nodes[last.ret].name
       /\ nodes[o].content # nodes[last.ret].content
  /\ Len(nodes[nodes[last.ret].parent].children) >= 2

\* ---------------------------------------------------------------- paths probed
PathChars == {"/", ".", "a"}

\* every path string over PathChars of at most MaxPathLen characters
ProbePaths == UNION {[1..n -> PathChars] : n \in 0..MaxPathLen}

Dot == <<".">>
DotDot == <<".", ".">>

\* the tree: the nodes reachable from vfs_root
Tree == Reach(nodes, vfs_root)

\* C11: abspath round-trips: in every reachable tree state and for every
\* node x of the tree, resolve(root, root, abspath(x)) returns x itself.
AbspathRoundTrips ==
  \A x \in Tree :
    resolve_in_vfs(nodes, vfs_root, vfs_root, abspath(nodes, x))
      = [node |-> x, err |-> "ok"]

\* C12: a ".." component never fails: from any node it leads to the node's
\* parent, at the root it stays at the root, and a path made only of ".."
\* and "." components resolves from the root to the root.
DotDotClamped ==
  /\ \A n \in NodeIds :
       resolve_in_vfs(nodes, n, vfs_root, DotDot)
         = [node |-> IF nodes[n].parent = None THEN vfs_root ELSE nodes[n].parent,
            err |-> "ok"]
  /\ \A p \in ProbePaths :
       (\A i \in 1..Len(Parts(p)) : Parts(p)[i] \in {Dot, DotDot}) =>
         resolve_in_vfs(nodes, vfs_root, vfs_root, p)
           = [node |-> vfs_root, err |-> "ok"]

\* C12 witness: a file lies two levels below the root, so ".." is taken from
\* a file and from a nested node as well as from the root.
DotDotClampedWitness ==
  \E n \in Files \cap Tree : Up(nodes, n, 2) # None

\* the child of directory c held under the name part, None when there is none
ChildNamed(c, part) ==
  IF \E n \in ChildIds(nodes, c) : \E i \in 1..Len(nodes[c].children) :
       nodes[c].children[i] = [name |-> part, node |-> n]
  THEN CHOOSE n \in ChildIds(nodes, c) : \E i \in 1..Len(nodes[c].children) :
         nodes[c].children[i] = [name |-> part, node |-> n]
  ELSE None

\* C13: resolve consumes the components one by one: "." stays, ".." goes up,
\* any other component fails with NotADirectory when the current node is
\* not a directory and with NotFound when the directory has no child of
\* that name, and otherwise moves to that child; the first failure is the
\* result, and without a failure the result is the node reached.
ResolveWalksComponents ==
  \A s \in NodeIds, p \in ProbePaths \ {Dot} :
    LET ps == Parts(p)
        base == IF StartsWithSlash(p) THEN vfs_root ELSE s
        R(i) == resolve_parts(nodes, base, vfs_root, SubSeq(ps, 1, i))
    IN /\ resolve_in_vfs(nodes, s, vfs_root, p) = R(Len(ps))
       /\ R(0) = [node |-> base, err |-> "ok"]
       /\ \A i \in 1..Len(ps) :
            LET prev == R(i - 1)
                c == prev.node
            IN IF prev.err # "ok" THEN R(i) = prev
               ELSE IF ps[i] = Dot THEN R(i) = prev
               ELSE IF ps[i] = DotDot
               THEN R(i) = [node |-> IF nodes[c].parent = None THEN vfs_root
                                      ELSE nodes[c].parent,
                            err |-> "ok"]
               ELSE IF nodes[c].kind # "dir"
               THEN R(i) = [node |-> None, err |-> "NotADirectory"]
               ELSE IF ChildNamed(c, ps[i]) = None
               THEN R(i) = [node |-> None, err |-> "NotFound"]
               ELSE R(i) = [node |-> ChildNamed(c, ps[i]), err |-> "ok"]

\* C13 witness: some probed path fails with NotADirectory (it runs through
\* a file), some fails with NotFound, and a nested directory has a child
\* that a relative path reaches.
ResolveWalksComponentsWitness ==
  /\ \E p \in ProbePaths :
       resolve_in_vfs(nodes, vfs_root, vfs_root, p).err = "NotADirectory"
  /\ \E p \in ProbePaths :
       resolve_in_vfs(nodes, vfs_root, vfs_root, p).err = "NotFound"
  /\ \E s \in Dirs \ {vfs_root} :
       resolve_in_vfs(nodes, s, vfs_root, <<"a">>).err = "ok"

\* C14: a path that begins with "/" resolves from the root, with the same
\* result (node or error) for every start node; an empty or absent path and
\* "." resolve to the start node itself.
AbsolutePathIgnoresStart ==
  /\ \A p \in ProbePaths :
       StartsWithSlash(p) =>
         \A s \in NodeIds :
           resolve_in_vfs(nodes, s, vfs_root, p)
             = resolve_in_vfs(nodes, vfs_root, vfs_root, p)
  /\ \A s \in NodeIds :
       /\ resolve_in_vfs(nodes, s, vfs_root, <<>>) = [node |-> s, err |-> "ok"]
       /\ resolve_in_vfs(nodes, s, vfs_root, NoPath) = [node |-> s, err |-> "ok"]
       /\ resolve_in_vfs(nodes, s, vfs_root, Dot) = [node |-> s, err |-> "ok"]

\* C14 witness: an absolute path resolves to a node that differs from what
\* the same components give relative to another directory.
AbsolutePathIgnoresStartWitness ==
  \E s \in Dirs \ {vfs_root} :
    /\ resolve_in_vfs(nodes, s, vfs_root, <<"/", "a">>).err = "ok"
    /\ resolve_in_vfs(nodes, s, vfs_root, <<"a">>)
         # resolve_in_vfs(nodes, s, vfs_root, <<"/", "a">>)

\* the node after the first i components of path p taken from start s, as
\* resolve reaches it
AfterPrefix(s, p, i) ==
  resolve_parts(nodes, IF StartsWithSlash(p) THEN vfs_root ELSE s, vfs_root,
                SubSeq(Parts(p), 1, i))

\* p has a final component that can name a node
HasProperFinal(p) ==
  /\ Parts(p) # <<>>
  /\ Parts(p)[Len(Parts(p))] \notin {Dot, DotDot}

\* every intermediate component of p exists and leaves resolution at a
\* directory
IntermediatesAreDirs(s, p) ==
  \A i \in 0..(Len(Parts(p)) - 1) :
    LET r == AfterPrefix(s, p, i) IN r.err = "ok" /\ IsDir(nodes, r.node)

\* the first intermediate component of p that is not an existing directory
\* is missing
MissingIntermediate(s, p) ==
  \E i \in 1..(Len(Parts(p)) - 1) :
    /\ \A j \in 0..(i - 1) :
         AfterPrefix(s, p, j).err = "ok" /\ IsDir(nodes, AfterPrefix(s, p, j).node)
    /\ AfterPrefix(s, p, i).err = "NotFound"

\* the first intermediate component of p that is not an existing directory
\* is a file
FileIntermediate(s, p) ==
  \E i \in 1..(Len(Parts(p)) - 1) :
    /\ \A j \in 0..(i - 1) :
         AfterPrefix(s, p, j).err = "ok" /\ IsDir(nodes, AfterPrefix(s, p, j).node)
    /\ IsFile(nodes, AfterPrefix(s, p, i).node)

\* C15 as stated: resolve_parent_for_creation fails with InvalidPath when
\* the path is empty, is exactly "/", or ends in "." or ".."; in every other
\* case where all intermediate components exist as directories it returns
\* (that directory, final component).
CreationTargetAsStated ==
  \A s \in Dirs, p \in ProbePaths :
    LET ps == Parts(p)
        r == resolve_parent_for_creation(nodes, s, vfs_root, p)
    IN IF p = <<>> \/ p = <<"/">> \/ (ps # <<>> /\ ps[Len(ps)] \in {Dot, DotDot})
       THEN r.err = "InvalidPath"
       ELSE IntermediatesAreDirs(s, p) =>
              /\ r.err = "ok"
              /\ ps # <<>>
              /\ r.name = ps[Len(ps)]
              /\ r.parent = AfterPrefix(s, p, Len(ps) - 1).node

\* C15 amended: resolve_parent_for_creation fails with InvalidPath when the
\* path has no component at all (it is empty or consists only of "/"
\* characters) or ends in "." or ".."; in every other case where all
\* intermediate components exist as directories it returns (that
\* directory, final component), whether or not the final component exists.
CreationTarget ==
  \A s \in Dirs, p \in ProbePaths :
    LET ps == Parts(p)
        r == resolve_parent_for_creation(nodes, s, vfs_root, p)
    IN IF ~HasProperFinal(p)
       THEN r.err = "InvalidPath"
       ELSE IntermediatesAreDirs(s, p) =>
              /\ r.err = "ok"
              /\ r.name = ps[Len(ps)]
              /\ r.parent = AfterPrefix(s, p, Len(ps) - 1).node

\* C15 witness: below a nested directory the name "a" is taken in one
\* directory and free in another, so a target is returned for an existing
\* and for a missing final component.
CreationTargetWitness ==
  /\ \E s \in Dirs \ {vfs_root} : Get(nodes, s, <<"a">>) # None
  /\ \E s \in Dirs : Get(nodes, s, <<"a">>) = None

\* C16: creation never creates intermediate directories: touch of a path,
\* and cp to a destination path, whose first unusable intermediate
\* component is missing fails with NotFound, and with NotADirectory when
\* that component is a file; in both cases the tree is unchanged.
NoAutoCreate ==
  [][/\ last'.op = "touch" =>
          \A p \in ShellPaths :
            (HasProperFinal(p) /\ Touch(<<p>>)) =>
              /\ MissingIntermediate(cwd, p) =>
                   (last'.err = "NotFound" /\ nodes' = nodes)
              /\ FileIntermediate(cwd, p) =>
                   (last'.err = "NotADirectory" /\ nodes' = nodes)
     /\ last'.op = "cp" =>
          \A sp \in ShellPaths, p \in ShellPaths :
            (/\ HasProperFinal(p)
             /\ IsFile(nodes, resolve_in_vfs(nodes, cwd, vfs_root, sp).node)
             /\ Cp(<<sp, p>>)) =>
              /\ MissingIntermediate(cwd, p) =>
                   (last'.err = "NotFound" /\ nodes' = nodes)
              /\ FileIntermediate(cwd, p) =>
                   (last'.err = "NotADirectory" /\ nodes' = nodes)]_vars

\* C16 witness: a touch was refused because an intermediate component of
\* its path is a file.
NoAutoCreateWitness ==
  /\ last.op = "touch"
  /\ last.err = "NotADirectory"
  /\ \E p \in ShellPaths : FileIntermediate(cwd, p)

\* the subtree of start: start and its descendants
Subtree(start) == {start} \cup Descendants(nodes, start)

\* C17: walk(start, None) over a subtree of N nodes yields exactly N
\* entries, each node once, with depth equal to its distance from start,
\* in depth-first pre-order (a node before its descendants, each subtree
\* in one block), siblings in case-insensitive lexicographic order.
WalkVisitsSubtree ==
  \A start \in NodeIds :
    LET w == walk(nodes, start, NoDepth)
    IN /\ Len(w) = Cardinality(Subtree(start))
       /\ {w[i].node : i \in 1..Len(w)} = Subtree(start)
       /\ w[1] = [node |-> start, depth |-> 0]
       /\ \A i \in 1..Len(w) :
            /\ Up(nodes, w[i].node, w[i].depth) = start
            /\ i + Cardinality(Descendants(nodes, w[i].node)) <= Len(w)
            /\ {w[j].node : j \in (i + 1)..(i + Cardinality(Descendants(nodes, w[i].node)))}
                 = Descendants(nodes, w[i].node)
       /\ \A i, j \in 2..Len(w) :
            (i < j /\ nodes[w[i].node].parent = nodes[w[j].node].parent) =>
              ~StrLess(Lower(nodes[w[j].node].name), Lower(nodes[w[i].node].name))

\* C17 witness: the root has two children with different names, entered
\* in descending order, and the first of them has a child of its own.
WalkVisitsSubtreeWitness ==
  /\ Len(nodes[vfs_root].children) = 2
  /\ nodes[vfs_root].children[1].name = <<"b">>
  /\ nodes[vfs_root].children[2].name = <<"a">>
  /\ nodes[nodes[vfs_root].children[1].node].children # <<>>

\* C18: walk(start, k) yields exactly the nodes of the subtree at distance
\* at most k from start, each once, none with a depth above k; walk(root, 0)
\* yields only (root, 0).
WalkDepthLimit ==
  /\ walk(nodes, vfs_root, 0) = <<[node |-> vfs_root, depth |-> 0]>>
  /\ \A start \in NodeIds, k \in 0..Len(nodes) :
       LET w == walk(nodes, start, k)
       IN /\ Len(w) = Cardinality(ReachK(nodes, {start}, k))
          /\ {w[i].node : i \in 1..Len(w)} = ReachK(nodes, {start}, k)
          /\ \A i \in 1..Len(w) :
               /\ w[i].depth <= k
               /\ Up(nodes, w[i].node, w[i].depth) = start

\* C18 witness: a node lies two levels below the root, so that a limit of 1
\* cuts the walk short.
WalkDepthLimitWitness ==
  /\ \E n \in Tree : Up(nodes, n, 2) = vfs_root
  /\ Len(walk(nodes, vfs_root, 1)) < Len(walk(nodes, vfs_root, NoDepth))
  /\ Len(walk(nodes, vfs_root, 1)) > 1

\* the entry list_names gives for child i of directory d
EntryOf(d, i) ==
  IF IsDir(nodes, nodes[d].children[i].node)
  THEN nodes[d].children[i].name \o <<"/">>
  ELSE nodes[d].children[i].name

\* C19: list_names returns one entry per child, a directory's suffixed
\* with "/", ordered by the case-insensitive lexicographic order of the
\* children's names, which is the order in which walk visits them.
ListNamesOrder ==
  \A d \in Dirs :
    LET kids == nodes[d].children
        l == list_names(nodes, d)
        w == walk(nodes, d, 1)
    IN /\ Len(l) = Len(kids)
       /\ \A i \in 1..Len(kids) : \E j \in 1..Len(l) : l[j] = EntryOf(d, i)
       /\ \A i, j \in 1..Len(kids) :
            StrLess(Lower(kids[i].name), Lower(kids[j].name)) =>
              \E a, b \in 1..Len(l) : a < b /\ l[a] = EntryOf(d, i) /\ l[b] = EntryOf(d, j)
       /\ \A i \in 1..Len(l) :
            \E c \in 1..Len(kids) : kids[c].node = w[i + 1].node /\ l[i] = EntryOf(d, c)

\* C20: insertion order is not observable: a directory holding the same
\* children (name, type, content), put in in any other order, gives the
\* same list_names, the same walk, and a copy that shows the same.
InsertionOrderHidden ==
  \A d \in Dirs : \A p \in Perms(Len(nodes[d].children)) :
    LET h2 == Rebuilt(d, p)
        d2 == Len(nodes) + 1
        top == Len(h2) + 1
        c1 == copy_recursive(Append(h2, VDir(<<"/">>, None)), d, top, <<"a">>, 1)
        c2 == copy_recursive(Append(h2, VDir(<<"/">>, None)), d2, top, <<"a">>, 1)
    IN /\ list_names(h2, d2) = list_names(nodes, d)
       /\ WalkView(h2, d2, NoDepth) = WalkView(nodes, d, NoDepth)
       /\ (c1.err = "ok" /\ c2.err = "ok") =>
            WalkView(c1.h, top, NoDepth) = WalkView(c2.h, top, NoDepth)

\* ---------------------------------------------------------------- start-up
\* C21: initialisation always ends with a usable tree: when the loader
\* returns a tree that tree becomes the root, when the loader signals a
\* load failure the built-in default tree becomes the root, and in both
\* cases the current directory is the root afterwards.
InitEndsWithTree ==
  [][last'.op = "init_vfs" =>
       \A src \in VfsSources :
         (src.kind # "none" /\ InitVfs(src)) =>
           /\ IsDir(nodes', vfs_root')
           /\ cwd' = vfs_root'
           /\ load_source(src).err = "ok" =>
                (nodes' = load_source(src).h /\ vfs_root' = load_source(src).root)
           /\ load_source(src).err # "ok" =>
                (nodes' = default_vfs.h /\ vfs_root' = default_vfs.root)]_vars

\* the command word of a line, <<>> for a line without words
CommandOf(line) ==
  IF shlex_split(line, <<>>) = <<>> THEN <<>> ELSE Head(shlex_split(line, <<>>))

\* the path a cd line names ("/" when it names none)
CdPath(line) ==
  IF Len(shlex_split(line, <<>>)) >= 2 THEN shlex_split(line, <<>>)[2] ELSE <<"/">>

\* C22: after any sequence of shell commands the current directory is a
\* directory reachable from the root; a cd whose path is missing or
\* resolves to a file fails and leaves the current directory unchanged,
\* and no command other than cd changes it.
CwdStaysValid ==
  [][/\ vfs_root' # None =>
          (IsDir(nodes', cwd') /\ cwd' \in Reach(nodes', vfs_root'))
     /\ last'.op = "process_line" =>
          \A line \in ShellLines :
            ProcessLine(line) =>
              /\ CommandOf(line) # CmdCd => cwd' = cwd
              /\ CommandOf(line) = CmdCd =>
                   LET r == resolve_in_vfs(nodes, cwd, vfs_root, CdPath(line))
                   IN /\ (r.err # "ok" \/ IsFile(nodes, r.node)) =>
                           (last'.err # "ok" /\ cwd' = cwd)
                      /\ last'.err # "ok" => cwd' = cwd
                      /\ last'.err = "ok" => cwd' = r.node]_vars

\* C22 witness: away from the root, a cd to a file has just been refused.
CwdStaysValidWitness ==
  /\ vfs_root # None
  /\ cwd # vfs_root
  /\ last.op = "process_line"
  /\ last.err = "NotADirectory"
  /\ IsFile(nodes, resolve_in_vfs(nodes, cwd, vfs_root, <<"a">>).node)

\* the tree was built by _default_vfs: its first cells are those of the
\* built-in tree (cells are never removed, renamed or moved)
StartedFromDefault ==
  /\ Len(nodes) >= Len(default_vfs.h)
  /\ \A i \in 1..Len(default_vfs.h) :
       /\ nodes[i].name = default_vfs.h[i].name
       /\ nodes[i].kind = default_vfs.h[i].kind
       /\ nodes[i].parent = default_vfs.h[i].parent

\* a name a path component can carry
WellFormedName(name) ==
  /\ name # <<>>
  /\ \A i \in 1..Len(name) : name[i] # "/"
  /\ name \notin {Dot, DotDot}

\* C23: starting from the default tree, after any sequence of touch and cp
\* commands every non-root node has a well-formed name: non-empty, without
\* "/", and different from "." and "..".
NamesWellFormed ==
  StartedFromDefault =>
    \A n \in Reach(nodes, vfs_root) \ {vfs_root} : WellFormedName(nodes[n].name)

\* the lines "touch P" with a single path P
TouchLines == {line \in ShellLines :
                 CommandOf(line) = CmdTouch /\ Len(shlex_split(line, <<>>)) = 2}

\* C24: touch of a path that resolves to an existing file succeeds and
\* leaves the whole tree, that file's content included, unchanged; touch of
\* a path that resolves to a directory fails and leaves the tree unchanged;
\* touch of a non-existing path with an existing parent directory adds
\* exactly one file, with empty content.
TouchEffect ==
  [][last'.op = "process_line" =>
       \A line \in TouchLines :
         ProcessLine(line) =>
           LET p == shlex_split(line, <<>>)[2]
               r == resolve_in_vfs(nodes, cwd, vfs_root, p)
               c == resolve_parent_for_creation(nodes, cwd, vfs_root, p)
               new == Len(nodes) + 1
           IN /\ IsFile(nodes, r.node) => (last'.err = "ok" /\ nodes' = nodes)
              /\ IsDir(nodes, r.node) => (last'.err # "ok" /\ nodes' = nodes)
              /\ (r.err # "ok" /\ c.err = "ok") =>
                   /\ last'.err = "ok"
                   /\ Len(nodes') = new
                   /\ nodes'[new] = VFile(c.name, "", c.parent)
                   /\ Get(nodes', c.parent, c.name) = new
                   /\ Get(nodes, c.parent, c.name) = None
                   /\ \A n \in NodeIds \ {c.parent} : nodes'[n] = nodes[n]
                   /\ nodes'[c.parent] =
                        [nodes[c.parent] EXCEPT
                           !.children = Append(@, [name |-> c.name, node |-> new])]]_vars

\* C24 witness: a touch line has just succeeded where its path names a file
\* with content, another touch line names a directory, and a third a free
\* name.
TouchEffectWitness ==
  /\ last.op = "process_line"
  /\ last.err = "ok"
  /\ \E line \in TouchLines :
       LET r == resolve_in_vfs(nodes, cwd, vfs_root, shlex_split(line, <<>>)[2])
       IN IsFile(nodes, r.node) /\ nodes[r.node].content # ""
  /\ \E line \in TouchLines :
       IsDir(nodes, resolve_in_vfs(nodes, cwd, vfs_root, shlex_split(line, <<>>)[2]).node)
  /\ \E line \in TouchLines :
       resolve_parent_for_creation(nodes, cwd, vfs_root, shlex_split(line, <<>>)[2]).err = "ok"

\* ---------------------------------------------------------------- script
\* line number i of the script holds a command
Executable(lines, i) ==
  Strip(lines[i]) # <<>> /\ Head(Strip(lines[i])) # "#"

\* the tree and directory after process_line of the lines numbered in log,
\* in that order, from entry i on
RECURSIVE AfterLogged(_, _, _, _, _)
AfterLogged(h, cur_dir, lines, log, i) ==
  IF i > Len(log) THEN [h |-> h, cwd |-> cur_dir]
  ELSE LET r == process_line(h, cur_dir, vfs_root, lines[log[i].lineno])
       IN AfterLogged(r.h, r.cwd, lines, log, i + 1)

\* C25: a start-up script stops at the first line whose execution reports
\* failure: the lines executed are, in order, the lines that hold a
\* command up to and including the first that fails, no later line is
\* executed, and blank lines and lines starting with "#" are never executed.
ScriptStopsAtFailure ==
  [][last'.op = "script" =>
       LET lines == script'.lines
           log == script_log'
           done == IF last'.err = "stopped" THEN log[Len(log)].lineno ELSE Len(lines)
       IN /\ \A i \in 1..Len(log) :
               /\ log[i].lineno \in 1..Len(lines)
               /\ Executable(lines, log[i].lineno)
               /\ i < Len(log) => (log[i].ok /\ log[i].lineno < log[i + 1].lineno)
          /\ last'.err = "stopped" <=> (log # <<>> /\ ~log[Len(log)].ok)
          /\ \A n \in 1..done :
               Executable(lines, n) => \E i \in 1..Len(log) : log[i].lineno = n
          /\ \A i \in 1..Len(log) : log[i].lineno <= done
          /\ AfterLogged(nodes, cwd, lines, log, 1) = [h |-> nodes', cwd |-> cwd']]_vars

\* C25 witness: a script was stopped at its second line, after a comment
\* was passed over, with a line that would have added a file still to come.
ScriptStopsAtFailureWitness ==
  /\ last.op = "script"
  /\ last.err = "stopped"
  /\ Len(script.lines) = 3
  /\ script_log = <<[lineno |-> 2, ok |-> FALSE]>>
  /\ script.lines[3] = <<"t", "o", "u", "c", "h", " ", "a">>
  /\ Get(nodes, vfs_root, <<"a">>) = None

\* ---------------------------------------------------------------- history
\* C26: after any sequence of Enter, Up and Down events the history cursor
\* is unset or a valid index into the history (0 <= index < length); Enter
\* unsets it and appends the line only when the line is not blank; Up and
\* Down on an empty history change nothing.
HistoryCursorValid ==
  [][/\ hist_idx' = NoIdx \/ hist_idx' \in 0..(Len(history') - 1)
     /\ last'.op = "enter" =>
          /\ hist_idx' = NoIdx
          /\ Strip(inp) = <<>> => history' = history
          /\ Strip(inp) # <<>> => history' = Append(history, inp)
     /\ (last'.op \in {"up", "down"} /\ history = <<>>) =>
          UNCHANGED <<history, hist_idx, inp, nodes, cwd>>]_vars

\* C26 witness: with two lines in the history the cursor stands on the
\* first of them.
HistoryCursorValidWitness ==
  /\ Len(history) >= 2
  /\ hist_idx = 0
  /\ last.op = "up"

\* ---------------------------------------------------------------- dependency depth
\* The dependencies the provider reports for an entry.
ReportedFor(e) == provider(graph, e.name, e.version)

\* C27: build_dependency_graph never reports a package deeper than the
\* limit: every entry has 0 <= depth <= max_depth, the root has depth 0,
\* and an entry at depth max_depth has an empty child list in edges even
\* when the provider reports dependencies for it.
DepthWithinLimit ==
  /\ \A i \in 1..Len(entries) :
       /\ entries[i].depth \in 0..max_depth
       /\ key_of(entries[i]) \in DOMAIN edges
       /\ entries[i].depth = max_depth => edges[key_of(entries[i])] = <<>>
  /\ entries # <<>> =>
       /\ entries[1].name = root_name
       /\ entries[1].depth = 0

\* C27 witness: an entry at depth max_depth for which the provider reports
\* dependencies.
DepthWithinLimitWitness ==
  \E i \in 1..Len(entries) :
    /\ entries[i].depth = max_depth
    /\ ReportedFor(entries[i]) # <<>>
    /\ edges[key_of(entries[i])] = <<>>

\* ---------------------------------------------------------------- dependency termination
\* The keys of the entries, in order.
EntryKeys == [i \in 1..Len(entries) |-> key_of(entries[i])]

\* A package that depends on itself or lies on a dependency cycle of two.
OnCycle(p) ==
  \E i \in 1..Len(graph[p]) :
    LET q == graph[p][i]
    IN q = p \/ \E j \in 1..Len(graph[q]) : graph[q][j] = p

\* C28: build_dependency_graph terminates for every finite dependency
\* graph, including graphs with cycles and self-dependencies, and each
\* (lower-cased name, version) key appears in entries at most once.
TerminatesWithUniqueKeys ==
  /\ <>(queue = <<>>)
  /\ [](\A i, j \in 1..Len(entries) :
          EntryKeys[i] = EntryKeys[j] => i = j)

\* C28 witness: the loop has ended on a graph in which the root lies on a
\* cycle and the cycle was followed.
TerminatesWithUniqueKeysWitness ==
  /\ queue = <<>>
  /\ Len(entries) >= 2
  /\ OnCycle(root_name)
  /\ last.op = "continue"

\* ---------------------------------------------------------------- dependency filter
\* The name contains the filter substring, case-insensitively.
FilterMatches(name) ==
  /\ filter_substring # NoFilter
  /\ Contains(Lower(filter_substring), Lower(name))

\* x is an element of the sequence s.
InSeq(x, s) == \E i \in 1..Len(s) : s[i] = x

\* The packages within k dependency steps of the root in the graph with
\* the filtered packages removed (the root itself is kept).
RECURSIVE Within(_)
Within(k) ==
  IF k = 0 THEN {root_name}
  ELSE Within(k - 1) \cup
       { d \in Packages :
           /\ ~FilterMatches(d)
           /\ \E p \in Within(k - 1) : InSeq(d, graph[p]) }

\* No filtered name is a non-root entry or a child; every entry is
\* reachable from the root without passing a filtered package; the root
\* is the first entry whatever its name.
FilteredNotReported ==
  /\ \A i \in 2..Len(entries) : ~FilterMatches(entries[i].name)
  /\ \A k \in DOMAIN edges :
       \A j \in 1..Len(edges[k]) : ~FilterMatches(edges[k][j])
  /\ \A i \in 1..Len(entries) : entries[i].name \in Within(max_depth)
  /\ entries # <<>> => entries[1].name = root_name

\* C29 as stated: a dependency whose name contains the filter substring
\* (case-insensitively) is never enqueued: it is no non-root entry and in
\* no child list, it is recorded in skipped, and nothing reachable only
\* through it is reported; the root itself is never filtered.
FilteredAsStated ==
  /\ FilteredNotReported
  /\ \A i \in 1..Len(entries) :
       \A j \in 1..Len(ReportedFor(entries[i])) :
         FilterMatches(ReportedFor(entries[i])[j].name) =>
           InSeq(ReportedFor(entries[i])[j].name, skipped)

\* C29 amended: as stated, but a filtered dependency is recorded in
\* skipped only when the entry that depends on it lies above the depth
\* limit (depth < max_depth); the dependencies of an entry at depth
\* max_depth are not looked at.
FilteredAndSkipped ==
  /\ FilteredNotReported
  /\ \A i \in 1..Len(entries) :
       \A j \in 1..Len(ReportedFor(entries[i])) :
         (/\ FilterMatches(ReportedFor(entries[i])[j].name)
          /\ entries[i].depth < max_depth) =>
           InSeq(ReportedFor(entries[i])[j].name, skipped)
  /\ \A j \in 1..Len(skipped) : FilterMatches(skipped[j])

\* C29 witness: the loop has ended, a dependency of a non-root entry was
\* skipped, and a package that the skipped one depends on is not reported.
FilteredAndSkippedWitness ==
  /\ queue = <<>>
  /\ Len(entries) >= 2
  /\ \E d \in Packages :
       /\ InSeq(d, skipped)
       /\ InSeq(d, graph[entries[2].name])
       /\ \E c \in Packages :
            /\ InSeq(c, graph[d])
            /\ \A i \in 1..Len(entries) : entries[i].name # c

\* ---------------------------------------------------------------- dependency distance
\* The names of the entries.
EntryNames == { entries[i].name : i \in 1..Len(entries) }

\* C30: in test-graph mode the depth recorded for each entry equals the
\* length of a shortest dependency path from the root to that package in
\* the graph with filtered packages removed, and the entries are exactly
\* the packages whose shortest distance is at most max_depth.
DepthIsShortestDistance ==
  queue = <<>> =>
    /\ \A i \in 1..Len(entries) :
         /\ entries[i].name \in Within(entries[i].depth)
         /\ entries[i].depth > 0 =>
              entries[i].name \notin Within(entries[i].depth - 1)
    /\ EntryNames = Within(max_depth)

====
